---------------------------- MODULE Spec2Model ----------------------------
(***************************************************************************)
(* The personalisation widget of src/src/App.jsx as a state machine: the   *)
(* React state of App, the catalog fetches, the user's edits, the          *)
(* debounced render effect, the off-screen preload and the guard timer,    *)
(* together with the pure helpers they call (template normalisation,       *)
(* palette and font resolution, render-URL assembly).                      *)
(*                                                                         *)
(* Conventions.  A JavaScript string is a sequence of one-character        *)
(* strings.  A value that may be null/undefined is a sequence of length at *)
(* most one: Null is <<>>, Some(x) is <<x>>.  Every event handler runs to  *)
(* completion together with the render and the effects it causes (the      *)
(* event loop is single-threaded and the effects of one commit run before  *)
(* the next event is dispatched).                                          *)
(***************************************************************************)
EXTENDS Integers, Sequences, FiniteSets, TLC

-----------------------------------------------------------------------------
(* Nullable values *)

Null == <<>>
Some(x) == <<x>>
Val(o) == o[1]

-----------------------------------------------------------------------------
(* JavaScript string primitives on sequences of characters *)

\* the characters of the model, by the classes the code's regular expressions
\* and string methods tell apart; primary is the order localeCompare puts two
\* characters in when case is left aside (punctuation, digits, letters)
Chars ==
    LET upper == <<"A","B","C","D","E","F","G","H","I","J","K","L","M",
                   "N","O","P","Q","R","S","T","U","V","W","X","Y","Z">>
        lower == <<"a","b","c","d","e","f","g","h","i","j","k","l","m",
                   "n","o","p","q","r","s","t","u","v","w","x","y","z">>
        digit == <<"0","1","2","3","4","5","6","7","8","9">>
        collation == <<" ", "_", "-", ".", "#", "&", "=">> \o digit
        set(f) == {f[i] : i \in DOMAIN f}
        pos(f, c) == CHOOSE i \in DOMAIN f : f[i] = c
    IN [upper |-> set(upper),
        digit |-> set(digit),
        digits |-> digit,
        \* \w of a JavaScript regular expression
        word |-> set(upper) \cup set(lower) \cup set(digit) \cup {"_"},
        \* [a-z0-9] under the i flag
        alnum |-> set(upper) \cup set(lower) \cup set(digit),
        hex |-> set(digit) \cup {"a","b","c","d","e","f","A","B","C","D","E","F"},
        lowerOf |-> [c \in set(upper) |-> lower[pos(upper, c)]],
        valueOf |-> [c \in set(digit) |-> pos(digit, c) - 1],
        primary |-> [c \in set(collation) \cup set(lower) |->
                        IF c \in set(collation) THEN pos(collation, c)
                        ELSE Len(collation) + pos(lower, c)]]

IsUpper(c) == c \in Chars.upper
IsHexDigit(c) == c \in Chars.hex
IsWordChar(c) == c \in Chars.word
IsAlnum(c) == c \in Chars.alnum
\* \s of a JavaScript regular expression (the characters the model uses)
IsSpace(c) == c \in {" ", "\t"}

LowerChar(c) == IF c \in Chars.upper THEN Chars.lowerOf[c] ELSE c

\* String.prototype.toLowerCase
toLowerCase(s) == [i \in 1..Len(s) |-> LowerChar(s[i])]

\* s.slice(from - 1): the suffix starting at 1-based index from
Drop(s, n) == SubSeq(s, n + 1, Len(s))
Take(s, n) == SubSeq(s, 1, IF n < Len(s) THEN n ELSE Len(s))

RECURSIVE LTrim(_)
LTrim(s) == IF s # <<>> /\ IsSpace(s[1]) THEN LTrim(Tail(s)) ELSE s
RECURSIVE RTrim(_)
RTrim(s) == IF s # <<>> /\ IsSpace(s[Len(s)]) THEN RTrim(SubSeq(s, 1, Len(s) - 1)) ELSE s
\* String.prototype.trim
trim(s) == RTrim(LTrim(s))

startsWith(s, p) == Len(p) <= Len(s) /\ SubSeq(s, 1, Len(p)) = p
endsWith(s, p) == Len(p) <= Len(s) /\ SubSeq(s, Len(s) - Len(p) + 1, Len(s)) = p
OccursAt(s, sub, i) == i >= 1 /\ i + Len(sub) - 1 <= Len(s) /\ SubSeq(s, i, i + Len(sub) - 1) = sub
\* String.prototype.includes
includes(s, sub) == \E i \in 1..(Len(s) + 1) : OccursAt(s, sub, i)

\* /(^|\b)w\b/ for a word w made of word characters: w occurs as a whole word
HasWholeWord(s, w) ==
    \E i \in 1..Len(s) :
        /\ OccursAt(s, w, i)
        /\ (i = 1 \/ ~IsWordChar(s[i - 1]))
        /\ (i + Len(w) > Len(s) \/ ~IsWordChar(s[i + Len(w)]))

\* /line\s*d\b/ on a lower-cased string, d a digit
HasLineDigit(s, d) ==
    \E i \in 1..Len(s) : \E j \in (i + 4)..Len(s) :
        /\ OccursAt(s, <<"l","i","n","e">>, i)
        /\ \A k \in (i + 4)..(j - 1) : IsSpace(s[k])
        /\ s[j] = d
        /\ (j = Len(s) \/ ~IsWordChar(s[j + 1]))

\* Number -> decimal string, as template literals format a non-negative integer
RECURSIVE ToDecimal(_)
ToDecimal(n) == IF n < 10 THEN <<Chars.digits[n + 1]>>
                ELSE ToDecimal(n \div 10) \o <<Chars.digits[(n % 10) + 1]>>

\* parseInt(digits, 10) of a non-empty string of digits
RECURSIVE ParseDigits(_)
ParseDigits(s) == IF s = <<>> THEN 0
                  ELSE 10 * ParseDigits(SubSeq(s, 1, Len(s) - 1)) + Chars.valueOf[s[Len(s)]]

\* the longest prefix of s made of digits
RECURSIVE DigitPrefix(_)
DigitPrefix(s) == IF s # <<>> /\ s[1] \in Chars.digit THEN <<s[1]>> \o DigitPrefix(Tail(s)) ELSE <<>>

Min(a, b) == IF a < b THEN a ELSE b
Max(a, b) == IF a > b THEN a ELSE b

\* A JavaScript number that need not be whole (a line count read from the
\* gateway's JSON) is kept as a count of 1/Denominator: Num(n) is the whole
\* number n.
Denominator == 2
Num(n) == n * Denominator
IsInteger(x) == x % Denominator = 0
\* the integer a length or a slice end is cut to (the number is not negative)
ToInteger(x) == x \div Denominator
\* the least length that is not less than x
LeastLength(x) == (x + Denominator - 1) \div Denominator

\* a || b on strings that may be undefined: the first truthy one
Truthy(o) == o # Null /\ Val(o) # <<>>

-----------------------------------------------------------------------------
(* Templates, elements, palette entries, fonts, designs                     *)
(*                                                                           *)
(* PulseTemplate: Code, Name, OrderType, FontOverride, DefaultFont, Font,    *)
(* TextColour, DefaultColour, Colour are strings ("" when the field is       *)
(* absent: the code reads them through ||, which treats both alike);         *)
(* TextLines, NumberOfTextLines, Lines are nullable numbers;                 *)
(* TemplateElements is a nullable list; TemplateFonts is a list.             *)
(* TemplateElement: ElementName, FontOverride, TextColour strings, Text a    *)
(* nullable string (typeof el.Text === 'string' tells "" from undefined).    *)

MAX_TEXT_LINES == 3
DEFAULT_TEMPLATE_CODE == <<"R","B","G","_","D","e","f","a","u","l","t","_","T","e","m","p","l","a","t","e">>
FONT_TYPE_FILTER == <<"e","m","b","r","o","i","d","e","r","y","-","t","e","m","p","l","a","t","e">>
DEFAULT_ORDER_TYPE == <<"e","m","b","r","o","i","d","e","r","y","-","t","e","m","p","l","a","t","e">>

Element(name, text, fontOv, colour) ==
    [ElementName |-> name, Text |-> text, FontOverride |-> fontOv, TextColour |-> colour]

Template(code, name, tl, ntl, ln, els) ==
    [Code |-> code, Name |-> name, TextLines |-> tl, NumberOfTextLines |-> ntl, Lines |-> ln,
     TemplateElements |-> els, FontOverride |-> <<>>, DefaultFont |-> <<>>, Font |-> <<>>,
     TextColour |-> <<>>, DefaultColour |-> <<>>, Colour |-> <<>>, OrderType |-> <<>>,
     TemplateFonts |-> <<>>]

\* el => typeof el.Text === 'string' && el.Text.trim().length > 0
HasNonEmptyText(el) == el.Text # Null /\ Len(trim(Val(el.Text))) > 0
\* el => typeof el.Text === 'string'
HasText(el) == el.Text # Null

\* the explicit line-count field: TextLines, else NumberOfTextLines, else Lines
ExplicitLineCount(t) ==
    IF t.TextLines # Null THEN t.TextLines
    ELSE IF t.NumberOfTextLines # Null THEN t.NumberOfTextLines
    ELSE IF t.Lines # Null THEN t.Lines
    ELSE Null

\* mutant: the count is returned without clamping
ClampLines_none(n) == n

\* Math.max(0, Math.min(MAX_TEXT_LINES, n))
ClampLines(n) == Max(0, Min(Num(MAX_TEXT_LINES), n))

\* the keyword heuristic over `${t.Name || ''} ${t.Code || ''}`.toLowerCase()
LineCountFromName(t) ==
    LET s == toLowerCase(t.Name \o <<" ">> \o t.Code) IN
    IF includes(s, <<"d","e","s","i","g","n"," ","o","n","l","y">>) THEN 0
    ELSE IF includes(s, <<"t","h","r","e","e">>) \/ HasWholeWord(s, <<"3">>) THEN Num(3)
    ELSE IF includes(s, <<"t","w","o">>) \/ HasWholeWord(s, <<"2">>) THEN Num(2)
    ELSE IF includes(s, <<"o","n","e">>) \/ HasWholeWord(s, <<"1">>) THEN Num(1)
    ELSE Num(1)

\* mutant: a list without text-bearing elements counts as the heuristic's default, one line
LineCountFromElements_one(textElements) ==
    IF Len(textElements) > 0 THEN ClampLines(Num(Len(textElements))) ELSE Num(1)

\* count of the elements with non-empty Text, clamped; 0 when there is none
LineCountFromElements(textElements) ==
    IF Len(textElements) > 0 THEN ClampLines(Num(Len(textElements))) ELSE 0

\* the body of getTemplateLineCount for a template that is not null
LineCountOf(t, explicit) ==
    IF explicit # Null THEN ClampLines(Val(explicit))
    ELSE IF t.TemplateElements # Null
         THEN LineCountFromElements(SelectSeq(Val(t.TemplateElements), HasNonEmptyText))
    ELSE LineCountFromName(t)

\* getTemplateLineCount(t), t a nullable template; a number, see Num
getTemplateLineCount(ot) ==
    IF ot = Null THEN Num(1) ELSE LineCountOf(Val(ot), ExplicitLineCount(Val(ot)))

\* rankElementName(name)
rankElementName(name) ==
    LET n == toLowerCase(trim(name)) IN
    IF n = <<>> THEN 999
    ELSE IF HasWholeWord(n, <<"t","o","p">>) \/ HasWholeWord(n, <<"u","p","p","e","r">>) THEN 1
    ELSE IF n = <<"t","e","x","t">> THEN 1
    ELSE IF HasLineDigit(n, "1") THEN 1
    ELSE IF \/ HasWholeWord(n, <<"b","o","t","t","o","m">>)
            \/ HasWholeWord(n, <<"b","o","t">>)
            \/ HasWholeWord(n, <<"l","o","w","e","r">>) THEN 2
    ELSE IF HasLineDigit(n, "2") THEN 2
    ELSE IF HasLineDigit(n, "3") THEN 3
    ELSE 999

\* templateSupportsDesign(t), t a nullable template
templateSupportsDesign(ot) ==
    /\ ot # Null
    /\ Val(ot).TemplateElements # Null
    /\ \E i \in DOMAIN Val(Val(ot).TemplateElements) :
          toLowerCase(trim(Val(Val(ot).TemplateElements)[i].ElementName)) = <<"d","e","s","i","g","n">>

\* parseInt(name.match(/line\s*(\d+)/i)?.[1] || '999', 10): the digits after the
\* leftmost "line" that is followed by optional white space and a digit
LineNumberAt(s, i) ==
    LET rest == LTrim(Drop(s, i + 3)) IN DigitPrefix(rest)
LineMatches(s, i) == OccursAt(toLowerCase(s), <<"l","i","n","e">>, i) /\ LineNumberAt(s, i) # <<>>
numericOf(name) ==
    IF \E i \in 1..Len(name) : LineMatches(name, i)
    THEN LET i == CHOOSE k \in 1..Len(name) :
                     LineMatches(name, k) /\ \A m \in 1..(k - 1) : ~LineMatches(name, m)
         IN ParseDigits(LineNumberAt(name, i))
    ELSE 999

\* String.prototype.localeCompare on the model's characters: digits before
\* letters, letters in alphabetical order whatever their case, and lower case
\* before upper case when nothing else tells two strings apart
PrimaryKey(c) ==
    IF LowerChar(c) \in DOMAIN Chars.primary THEN Chars.primary[LowerChar(c)] ELSE 0
RECURSIVE ComparePrimary(_, _)
ComparePrimary(a, b) ==
    IF a = <<>> /\ b = <<>> THEN 0
    ELSE IF a = <<>> THEN -1
    ELSE IF b = <<>> THEN 1
    ELSE IF PrimaryKey(a[1]) < PrimaryKey(b[1]) THEN -1
    ELSE IF PrimaryKey(a[1]) > PrimaryKey(b[1]) THEN 1
    ELSE ComparePrimary(Tail(a), Tail(b))
RECURSIVE CompareCase(_, _)
CompareCase(a, b) ==
    IF a = <<>> \/ b = <<>> THEN 0
    ELSE IF a[1] = b[1] THEN CompareCase(Tail(a), Tail(b))
    ELSE IF IsUpper(b[1]) /\ ~IsUpper(a[1]) THEN -1
    ELSE IF IsUpper(a[1]) /\ ~IsUpper(b[1]) THEN 1
    ELSE CompareCase(Tail(a), Tail(b))
localeCompare(a, b) ==
    IF ComparePrimary(a, b) # 0 THEN ComparePrimary(a, b) ELSE CompareCase(a, b)

\* mutant: the names are compared lexically only
CompareNamed_lexical(a, b) == localeCompare(a.name, b.name)

\* (a.rank - b.rank) || (a.numeric - b.numeric) || a.name.localeCompare(b.name)
CompareNamed(a, b) ==
    IF a.rank # b.rank THEN a.rank - b.rank
    ELSE IF a.numeric # b.numeric THEN a.numeric - b.numeric
    ELSE localeCompare(a.name, b.name)

\* Array.prototype.sort is stable: each item is inserted after the last item
\* that does not compare greater
RECURSIVE InsertSorted(_, _)
InsertSorted(sorted, x) ==
    IF sorted = <<>> THEN <<x>>
    ELSE IF CompareNamed(x, sorted[Len(sorted)]) < 0
         THEN InsertSorted(SubSeq(sorted, 1, Len(sorted) - 1), x) \o <<sorted[Len(sorted)]>>
         ELSE sorted \o <<x>>
RECURSIVE StableSort(_)
StableSort(seq) ==
    IF seq = <<>> THEN <<>>
    ELSE InsertSorted(StableSort(SubSeq(seq, 1, Len(seq) - 1)), seq[Len(seq)])

\* `Line${n}`
LineN(n) == <<"L","i","n","e">> \o ToDecimal(n)

\* mutant: no name is synthesized
PadNames_none(ordered, count) == ordered

\* while (ordered.length < count) ordered.push(`Line${ordered.length + 1}`)
RECURSIVE PadNames(_, _)
PadNames(ordered, count) ==
    IF Len(ordered) < count THEN PadNames(ordered \o <<LineN(Len(ordered) + 1)>>, count)
    ELSE ordered

\* getElementNamesForTemplate(template, count), template nullable
getElementNamesForTemplate(ot, count) ==
    LET fallback == [i \in 1..count |-> LineN(i)] IN
    IF ot = Null \/ Val(ot).TemplateElements = Null THEN fallback
    ELSE LET textEls == SelectSeq(Val(Val(ot).TemplateElements), HasText)
             named == [i \in 1..Len(textEls) |->
                          LET name == trim(textEls[i].ElementName) IN
                          [name |-> name, rank |-> rankElementName(name), numeric |-> numericOf(name)]]
             els == SelectSeq(named, LAMBDA e : e.name # <<>>)
         IN IF Len(els) = 0 THEN fallback
            ELSE LET sorted == StableSort(els)
                     ordered == [i \in 1..Len(sorted) |-> sorted[i].name]
                 IN Take(PadNames(ordered, count), count)

-----------------------------------------------------------------------------
(* Palette resolver                                                          *)
(* PulseColour: Code and Name strings, Red, Green, Blue numbers.             *)

Colour(code, name, r, g, b) == [Code |-> code, Name |-> name, Red |-> r, Green |-> g, Blue |-> b]

\* Array.prototype.find: seq.find(p) is First(SelectSeq(seq, p)), the first
\* item satisfying p, or undefined
First(selected) == IF selected # <<>> THEN Some(selected[1]) ELSE Null

\* `rgb(${c.Red}, ${c.Green}, ${c.Blue})`
rgbOf(c) == <<"r","g","b","(">> \o ToDecimal(c.Red) \o <<","," ">> \o ToDecimal(c.Green)
            \o <<","," ">> \o ToDecimal(c.Blue) \o <<")">>

\* getColorCode(rgb, colors), rgb nullable
getColorCode(rgb, colors) ==
    LET match == First(SelectSeq(colors, LAMBDA c : Some(rgbOf(c)) = rgb))
    IN IF match # Null THEN Val(match).Name ELSE <<>>

\* s.split(/\s*-\s*/)
RECURSIVE SplitDash(_)
SplitDash(s) ==
    IF \E i \in 1..Len(s) : s[i] = "-"
    THEN LET i == CHOOSE k \in 1..Len(s) : s[k] = "-" /\ \A m \in 1..(k - 1) : s[m] # "-"
         IN <<RTrim(SubSeq(s, 1, i - 1))>> \o SplitDash(LTrim(Drop(s, i)))
    ELSE <<s>>

\* parts.join(' - ')
RECURSIVE JoinDash(_)
JoinDash(parts) ==
    IF parts = <<>> THEN <<>>
    ELSE IF Len(parts) = 1 THEN parts[1]
    ELSE parts[1] \o <<" ","-"," ">> \o JoinDash(Tail(parts))

\* findColourRgbFromTemplateValue(value, colours): an RGB string or null
findColourRgbFromTemplateValue(value, colours) ==
    IF value = <<>> \/ colours = <<>> THEN Null
    ELSE
    LET s == trim(value)
        ls == toLowerCase(s)
        digits == DigitPrefix(s)
        byCode == IF Len(digits) >= 3
                  THEN First(SelectSeq(colours, LAMBDA c : c.Code = Take(digits, 4)))
                  ELSE Null
        byName == First(SelectSeq(colours, LAMBDA c : toLowerCase(c.Name) = ls))
        byOverlap == First(SelectSeq(colours, LAMBDA c : includes(toLowerCase(c.Name), ls)
                                              \/ includes(ls, toLowerCase(c.Name))))
        parts == SplitDash(s)
        tail == toLowerCase(JoinDash(Tail(parts)))
        byTail == IF Len(parts) > 1
                  THEN First(SelectSeq(colours, LAMBDA c : includes(toLowerCase(c.Name), tail)))
                  ELSE Null
    IN IF startsWith(ls, <<"r","g","b","(">>) THEN Some(s)
       ELSE IF Len(s) = 6 /\ \A i \in 1..6 : IsHexDigit(s[i]) THEN Some(<<"#">> \o s)
       ELSE IF Len(s) = 7 /\ s[1] = "#" /\ \A i \in 2..7 : IsHexDigit(s[i]) THEN Some(s)
       ELSE IF byCode # Null THEN Some(rgbOf(Val(byCode)))
       ELSE IF byName # Null THEN Some(rgbOf(Val(byName)))
       ELSE IF byOverlap # Null THEN Some(rgbOf(Val(byOverlap)))
       ELSE IF byTail # Null THEN Some(rgbOf(Val(byTail)))
       ELSE Null

-----------------------------------------------------------------------------
(* Font reconciler                                                           *)
(* PulseFont: FontName, FontType strings.  TemplateFontMap: PulseFont,       *)
(* FontName strings.                                                         *)

FontEntry(name, type) == [FontName |-> name, FontType |-> type]
FontMap(pulse, name) == [PulseFont |-> pulse, FontName |-> name]

\* s.replace(/\.(ttf|otf|woff2?)$/i, '')
StripFontExtension(s) ==
    LET l == toLowerCase(s) IN
    IF endsWith(l, <<".","t","t","f">>) \/ endsWith(l, <<".","o","t","f">>)
    THEN SubSeq(s, 1, Len(s) - 4)
    ELSE IF endsWith(l, <<".","w","o","f","f","2">>) THEN SubSeq(s, 1, Len(s) - 6)
    ELSE IF endsWith(l, <<".","w","o","f","f">>) THEN SubSeq(s, 1, Len(s) - 5)
    ELSE s

\* mutant: the font-file extension is not stripped
normalize_keepExtension(s) == toLowerCase(SelectSeq(s, IsAlnum))

\* normalize = s => String(s).replace(ext, '').replace(/[^a-z0-9]/gi, '').toLowerCase()
normalize(s) == toLowerCase(SelectSeq(StripFontExtension(s), IsAlnum))

\* mutant: the template's table is not consulted
byPulse_none(tf, lov) == Null

\* tf.find(f => String(f.PulseFont || '').toLowerCase() === ov.toLowerCase())
byPulse(tf, lov) == First(SelectSeq(tf, LAMBDA f : toLowerCase(f.PulseFont) = lov))

\* resolveFontFromOverride(tpl, override, availableFonts): a FontName or null
resolveFontFromOverride(tpl, override, fonts) ==
    IF override = <<>> \/ fonts = <<>> THEN Null
    ELSE
    LET ov == trim(override)
        lov == toLowerCase(ov)
        nOv == normalize(ov)
        mapped == IF byPulse(tpl.TemplateFonts, lov) # Null
                     /\ Val(byPulse(tpl.TemplateFonts, lov)).FontName # <<>>
                  THEN First(SelectSeq(fonts, LAMBDA f : toLowerCase(f.FontName)
                                   = toLowerCase(Val(byPulse(tpl.TemplateFonts, lov)).FontName)))
                  ELSE Null
        exact == First(SelectSeq(fonts, LAMBDA f : toLowerCase(f.FontName) = lov))
        punct == First(SelectSeq(fonts, LAMBDA f : normalize(f.FontName) = nOv))
        prefix == First(SelectSeq(fonts, LAMBDA f : startsWith(normalize(f.FontName), nOv)
                                          \/ startsWith(nOv, normalize(f.FontName))))
    IN IF mapped # Null THEN Some(Val(mapped).FontName)
       ELSE IF exact # Null THEN Some(Val(exact).FontName)
       ELSE IF punct # Null THEN Some(Val(punct).FontName)
       ELSE IF prefix # Null THEN Some(Val(prefix).FontName)
       ELSE Null

-----------------------------------------------------------------------------
(* deriveControlsFromTemplate                                                *)

\* textEls: the elements with a Text string, sorted as the element names are
SortedTextElements(elements) ==
    LET textEls == SelectSeq(elements, HasText)
        \* the sort key of a text element: String(el.ElementName || ''), not trimmed
        keyed == [i \in 1..Len(textEls) |->
                    [name |-> textEls[i].ElementName, rank |-> rankElementName(textEls[i].ElementName),
                     numeric |-> numericOf(textEls[i].ElementName), el |-> textEls[i]]]
        sorted == StableSort(keyed)
    IN [i \in 1..Len(sorted) |-> sorted[i].el]

\* result.lines
DerivedLines(template, textEls) ==
    IF Len(textEls) > 0
    THEN [i \in 1..Min(Len(textEls), 3) |-> Val(textEls[i].Text)]
    ELSE [i \in 1..ToInteger(Min(getTemplateLineCount(Some(template)), Num(3))) |-> <<>>]

\* el => el.FontOverride, el => el.TextColour
hasFont(el) == el.FontOverride # <<>>
hasColour(el) == el.TextColour # <<>>

\* textEls.find(p) || elements.find(p)
FirstFound(first, second) == IF first # Null THEN first ELSE second

\* template.FontOverride || template.DefaultFont || template.Font
topLevelFont(template) ==
    IF template.FontOverride # <<>> THEN template.FontOverride
    ELSE IF template.DefaultFont # <<>> THEN template.DefaultFont
    ELSE template.Font

\* template.TextColour || template.DefaultColour || template.Colour
topLevelColour(template) ==
    IF template.TextColour # <<>> THEN template.TextColour
    ELSE IF template.DefaultColour # <<>> THEN template.DefaultColour
    ELSE template.Colour

\* result.font
DerivedFont(fontEl, topFont) ==
    IF fontEl # Null THEN Some(Val(fontEl).FontOverride)
    ELSE IF topFont # <<>> THEN Some(topFont)
    ELSE Null

\* result.colorRgb
DerivedColour(colorEl, topColour, colours) ==
    IF colorEl # Null THEN findColourRgbFromTemplateValue(Val(colorEl).TextColour, colours)
    ELSE IF topColour # <<>> THEN findColourRgbFromTemplateValue(topColour, colours)
    ELSE Null

\* the result object, from the template's elements and its sorted text elements
DerivedControls(template, colours, elements, textEls) ==
    [lines |-> DerivedLines(template, textEls),
     font |-> DerivedFont(FirstFound(First(SelectSeq(textEls, hasFont)),
                                        First(SelectSeq(elements, hasFont))),
                             topLevelFont(template)),
     colorRgb |-> DerivedColour(FirstFound(First(SelectSeq(textEls, hasColour)),
                                            First(SelectSeq(elements, hasColour))),
                                topLevelColour(template), colours)]

\* Array.isArray(template.TemplateElements) ? template.TemplateElements : []
ElementsOf(template) ==
    IF template.TemplateElements # Null THEN Val(template.TemplateElements) ELSE <<>>

\* deriveControlsFromTemplate(template, colours), template not null:
\* {lines, font, colorRgb}, font and colorRgb nullable
deriveControlsFromTemplate(template, colours) ==
    DerivedControls(template, colours, ElementsOf(template),
                    SortedTextElements(ElementsOf(template)))

-----------------------------------------------------------------------------
(* Render-URL assembly (the body of the debounced callback)                  *)
(*                                                                           *)
(* A URL is a string; the literal pieces the code writes itself              *)
(* ("&Personalizations[", "].Text=", ...) are kept as single items of the    *)
(* sequence, the interpolated values character by character.                 *)

Undefined == <<"undefined">>        \* a hole of the textLines array
Product(code, preview) == [Code |-> code, ProductPreviewURL |-> preview]
Design(id, name) == [id |-> id, DesignName |-> name]

\* encodeURIComponent, on the characters of the model
EncodeChar(c) ==
    IF IsAlnum(c) \/ c \in {"-", "_", ".", "!", "~", "*", "'", "(", ")"} THEN <<c>>
    ELSE IF c = " " THEN <<"%","2","0">>
    ELSE IF c = "\t" THEN <<"%","0","9">>
    ELSE IF c = "#" THEN <<"%","2","3">>
    ELSE IF c = "%" THEN <<"%","2","5">>
    ELSE IF c = "&" THEN <<"%","2","6">>
    ELSE IF c = "," THEN <<"%","2","C">>
    ELSE IF c = "=" THEN <<"%","3","D">>
    ELSE IF c = "{" THEN <<"%","7","B">>
    ELSE IF c = "}" THEN <<"%","7","D">>
    ELSE <<"%", c>>
RECURSIVE encodeURIComponent(_)
encodeURIComponent(s) ==
    IF s = <<>> THEN <<>> ELSE EncodeChar(s[1]) \o encodeURIComponent(Tail(s))

\* typeof txt === 'string' && txt.trim().length > 0
IsNonEmptyLine(txt) == txt # Undefined /\ Len(trim(txt)) > 0

TextEntry(pIndex, elName, txt, colourCode, fontName) ==
    [index |-> pIndex, IsText |-> TRUE, ElementName |-> elName, Text |-> txt,
     TextColour |-> colourCode, FontOverride |-> fontName, Design |-> <<>>]

\* mutant: the entry index is the line index i, not the running pIndex
RECURSIVE TextEntries_byLine(_, _, _, _, _, _)
TextEntries_byLine(lines, names, i, pIndex, colourCode, fontName) ==
    IF i > Len(lines) THEN <<>>
    ELSE IF IsNonEmptyLine(lines[i])
         THEN <<TextEntry(i - 1, names[i], lines[i], colourCode, fontName)>>
              \o TextEntries_byLine(lines, names, i + 1, pIndex + 1, colourCode, fontName)
         ELSE TextEntries_byLine(lines, names, i + 1, pIndex, colourCode, fontName)

\* textLines.forEach((txt, i) => ...), from line i on with pIndex entries so far
RECURSIVE TextEntries(_, _, _, _, _, _)
TextEntries(lines, names, i, pIndex, colourCode, fontName) ==
    IF i > Len(lines) THEN <<>>
    ELSE IF IsNonEmptyLine(lines[i])
         THEN LET elName == IF i <= Len(names) /\ names[i] # <<>> THEN names[i] ELSE LineN(i)
              IN <<TextEntry(pIndex, elName, lines[i], colourCode, fontName)>>
                 \o TextEntries(lines, names, i + 1, pIndex + 1, colourCode, fontName)
         ELSE TextEntries(lines, names, i + 1, pIndex, colourCode, fontName)

\* const designName = String(selectedDesign?.DesignName || '').trim(); if (designName) ...
DesignEntries(selTemplate, selDesign, pIndex) ==
    LET designName == IF selDesign = Null THEN <<>> ELSE trim(Val(selDesign).DesignName)
    IN IF designName # <<>>
       THEN << [index |-> pIndex, IsText |-> FALSE, ElementName |-> <<"D","e","s","i","g","n">>,
                Text |-> <<>>, TextColour |-> <<>>, FontOverride |-> <<>>, Design |-> designName] >>
       ELSE <<>>

\* the personalization entries written into `parts`, in order
Personalizations(env) ==
    LET elementNames == getElementNamesForTemplate(env.selectedTemplate, Len(env.textLines))
        texts == TextEntries(env.textLines, elementNames, 1, 0,
                             getColorCode(env.color, env.availableColors), env.font)
    IN texts \o DesignEntries(env.selectedTemplate, env.selectedDesign, Len(texts))

PartPrefix(e) == <<"&Personalizations[">> \o ToDecimal(e.index)
SerializeEntry(e) ==
    IF e.IsText
    THEN PartPrefix(e) \o <<"].ElementName=">> \o encodeURIComponent(e.ElementName)
         \o PartPrefix(e) \o <<"].Text=">> \o encodeURIComponent(e.Text)
         \o PartPrefix(e) \o <<"].IsText=true">>
         \o PartPrefix(e) \o <<"].TextColour=">> \o e.TextColour
         \o PartPrefix(e) \o <<"].FontOverride=">> \o encodeURIComponent(e.FontOverride)
    ELSE PartPrefix(e) \o <<"].ElementName=Design">>
         \o PartPrefix(e) \o <<"].Design=">> \o encodeURIComponent(e.Design)
RECURSIVE SerializeEntries(_)
SerializeEntries(es) == IF es = <<>> THEN <<>> ELSE SerializeEntry(es[1]) \o SerializeEntries(Tail(es))

\* newUrl, from the values the callback closes over
BuildRenderUrl(env) ==
    LET templateCode == IF env.selectedTemplate # Null /\ Val(env.selectedTemplate).Code # <<>>
                        THEN Val(env.selectedTemplate).Code ELSE DEFAULT_TEMPLATE_CODE
        orderType == IF env.selectedTemplate # Null /\ Val(env.selectedTemplate).OrderType # <<>>
                     THEN Val(env.selectedTemplate).OrderType ELSE DEFAULT_ORDER_TYPE
    IN <<"/api/pulseid-proxy?endpoint=/api/api/Orders/Render">>
       \o <<"&OrderType=">> \o encodeURIComponent(orderType)
       \o <<"&ProductCode=">> \o Val(env.product).Code
       \o <<"&TemplateCode=">> \o encodeURIComponent(templateCode)
       \o SerializeEntries(Personalizations(env))
       \o <<"&Transparency=%2300FFFFFF">> \o <<"&RenderOnProduct=true">> \o <<"&Dpi=72">>

-----------------------------------------------------------------------------
(* The gateway's answers and the user's inputs                               *)

MaxEdits == 1            \* user actions in one run of the model

S_Block == <<"B","l","o","c","k">>
S_Line1 == <<"L","i","n","e","1">>

ProductResponse == Product(<<"P","1">>, <<"{api domain}", "/", "b", "a", "g">>)

FontsResponse ==
    << FontEntry(S_Block, FONT_TYPE_FILTER),
       FontEntry(<<"S","c","r","i","p","t">>, <<"p","r","i","n","t",","," ">> \o FONT_TYPE_FILTER),
       FontEntry(<<"A","r","i","a","l">>, <<"p","r","i","n","t">>) >>

\* the palette with the default colour 1801, and a palette without it
ColoursResponses ==
    { << Colour(<<"1","8","0","1">>, <<"1","8","0","1"," ","-"," ","W","h","i","t","e">>, 255, 255, 255),
         Colour(<<"1","8","4","2">>, <<"1","8","4","2"," ","-"," ","B","l","u","e">>, 0, 0, 255) >>,
      << Colour(<<"1","9","0","0">>, <<"1","9","0","0"," ","-"," ","R","e","d">>, 255, 0, 0) >> }

\* count 3 by its explicit field, one text element, a Design element
TplA == [Template(<<"R","B","G","_","A">>, <<"A">>, Some(Num(3)), Null, Null,
                  Some(<< Element(S_Line1, Some(<<"H","i">>), <<"b","l","o","c","k",".","t","t","f">>,
                                  <<"1","8","4","2">>),
                          Element(<<"D","e","s","i","g","n">>, Null, <<>>, <<>>) >>))
         EXCEPT !.TemplateFonts = << FontMap(<<"s","c","r">>, <<"S","c","r","i","p","t">>) >>]
\* two text elements, one of them with an empty text; no Design element
TplB == Template(<<"R","B","G","_","B">>, <<"B">>, Null, Null, Null,
                 Some(<< Element(<<"B","o","t","t","o","m">>, Some(<<>>), <<>>, <<>>),
                         Element(<<"T","o","p">>, Some(<<"T">>), <<>>, <<>>) >>))
\* no elements: two lines by its name; its colour is given as a hex string
TplC == [Template(<<"R","B","G","_","C">>, <<"T","w","o">>, Null, Null, Null, Null)
         EXCEPT !.TextColour = <<"#","F","F","0","0","0","0">>]
\* not a customizable template: its code lacks the RBG_ prefix
TplX == Template(<<"X","_","1">>, <<"X">>, Some(1), Null, Null, Null)

TemplatesResponses == { <<TplA, TplX, TplB, TplC>> }

DesignsResponse == << Design(<<"1">>, <<"S","t","a","r">>), Design(<<"2">>, <<"M","o","o","n">>) >>

TextValues == { <<" ">>, <<"A">> }
InitialText == <<"M","y"," ","C","u","s","t","o","m"," ","T","e","x","t">>

-----------------------------------------------------------------------------
(* State *)

VARIABLES
    product, textLines, font, color,             \* useState, lines 1311-1314
    previewUrl, pendingUrl, displayedUrl,        \* lines 1315-1317
    isRendering,                                 \* line 1318
    availableFonts, availableColors,             \* lines 1320-1322
    availableTemplates, selectedTemplate,        \* lines 1324-1326
    availableDesigns, selectedDesign,            \* lines 1328-1330
    imgKey, lastRenderUrl,                       \* lines 1331-1332
    templateInitPending,                         \* line 1368
    fetches,       \* the five catalog fetches: "pending", "done" or "failed"
    debounce,      \* the pending lodash debounce timer and what its callback closes over
    guard,         \* the pending 10 s timeout of the guard effect
    img,           \* the window.Image of the current pendingUrl, handlers attached
    stale,         \* URLs of superseded images still loading, handlers detached
    visibleLoading,\* the visible <img> has a load or error event to deliver
    h,             \* history: what happened, for stating the properties
    fnArg, fnRet   \* argument and result of a helper applied on its own

react == <<product, textLines, font, color, previewUrl, pendingUrl, displayedUrl, isRendering,
           availableFonts, availableColors, availableTemplates, selectedTemplate,
           availableDesigns, selectedDesign, imgKey, lastRenderUrl, templateInitPending>>
vars == <<react, fetches, debounce, guard, img, stale, visibleLoading, h, fnArg, fnRet>>

-----------------------------------------------------------------------------
(* Timers.  Time is counted in ticks, TicksPerInterval to a debounce        *)
(* interval.                                                                 *)

RENDER_DEBOUNCE_MS == 1000
GUARD_TIMEOUT_MS == 10000
TicksPerInterval == 2
DebounceTicks == TicksPerInterval
GuardTicks == (GUARD_TIMEOUT_MS \div RENDER_DEBOUNCE_MS) * TicksPerInterval

-----------------------------------------------------------------------------
(* What a render reads and what the effects do after a commit                *)

\* the values the debounced callback closes over (the render that ran the effect)
CurrentEnv ==
    [product |-> product, color |-> color, availableColors |-> availableColors,
     selectedTemplate |-> selectedTemplate, textLines |-> textLines, font |-> font,
     selectedDesign |-> selectedDesign, lastRenderUrl |-> lastRenderUrl]

\* src={displayedUrl || product?.ProductPreviewURL}
VisibleSrc == IF displayedUrl # <<>> THEN displayedUrl
              ELSE IF product # Null THEN Val(product).ProductPreviewURL ELSE <<>>

\* hasTextLines, and the count TextInputsSection renders
\* (selectedTemplate ?? {}: no template selected is the object without fields)
ShownLineCount ==
    getTemplateLineCount(IF selectedTemplate = Null
                         THEN Some(Template(<<>>, <<>>, Null, Null, Null, Null))
                         ELSE selectedTemplate)
hasTextLines == ShownLineCount > 0

\* mutant: font is missing from the dependency list of the render effect
RenderDepsChanged_noFont(touched) ==
    \/ touched
    \/ color' # color \/ product' # product
    \/ selectedTemplate' # selectedTemplate \/ selectedDesign' # selectedDesign

\* mutant: selectedDesign is missing from the dependency list of the render effect
RenderDepsChanged_noDesign(touched) ==
    \/ touched
    \/ font' # font \/ color' # color \/ product' # product
    \/ selectedTemplate' # selectedTemplate

\* [textLines, font, color, product, availableColors, selectedTemplate, selectedDesign]:
\* touched says that textLines or availableColors was set to a new array
RenderDepsChanged(touched) ==
    \/ touched
    \/ font' # font \/ color' # color \/ product' # product
    \/ selectedTemplate' # selectedTemplate \/ selectedDesign' # selectedDesign

\* if (!product || !color) return;
RenderGate(p, c) == p # Null /\ Truthy(c)

\* the debounced render effect: cancel the pending callback, schedule a new one
RenderEffect(touched) ==
    debounce' = IF RenderDepsChanged(touched)
                THEN IF RenderGate(product', color')
                     THEN Some([left |-> DebounceTicks, env |-> CurrentEnv'])
                     ELSE Null
                ELSE debounce

\* mutant: the cleanup leaves the handlers of the superseded image attached
CleanupImage_kept(image) == image

\* the cleanup of the preload effect: img.onload = null; img.onerror = null
CleanupImage(image) == [image EXCEPT !.handlers = FALSE]

\* mutant: the image is created without its handlers
NewImage_detached(url) == [url |-> url, status |-> "loading", handlers |-> FALSE]

\* const img = new window.Image(); img.onload = ...; img.onerror = ...; img.src = pendingUrl
NewImage(url) == [url |-> url, status |-> "loading", handlers |-> TRUE]

\* the preload effect on pendingUrl: clean up the previous image, load the new URL
PreloadEffect ==
    IF pendingUrl' # pendingUrl
    THEN /\ img' = IF pendingUrl' # <<>> THEN Some(NewImage(pendingUrl')) ELSE Null
         /\ stale' = stale \cup (IF img # Null /\ Val(img).status = "loading"
                                 THEN {CleanupImage(Val(img))} ELSE {})
    ELSE UNCHANGED <<img, stale>>

\* mutant: the guard effect sets no timer
GuardEffect_off == guard' = Null

\* the guard effect on [isRendering, imgKey]
GuardEffect ==
    guard' = IF isRendering' # isRendering \/ imgKey' # imgKey
             THEN IF isRendering' THEN Some(GuardTicks) ELSE Null
             ELSE guard

\* the visible <img key={imgKey} src={...}>: a new src or key starts a load
VisibleEffect ==
    visibleLoading' = IF VisibleSrc' # VisibleSrc \/ imgKey' # imgKey
                      THEN VisibleSrc' # <<>>
                      ELSE visibleLoading

\* the history kept by every step
NextH(name, isEdit) ==
    [h EXCEPT !.last = name,
              !.edited = isEdit,
              !.run = IF isEdit
                      THEN IF @ > 0 /\ h.age < DebounceTicks THEN Min(@ + 1, 3) ELSE 1
                      ELSE @,
              !.restarted = isEdit /\ debounce # Null /\ Val(debounce).left < DebounceTicks,
              !.age = IF isEdit THEN 0 ELSE @,
              !.builds = IF isEdit THEN 0 ELSE @,
              !.gate = IF isEdit THEN RenderGate(product', color') ELSE @,
              !.raisedFor = IF isRendering' /\ ~isRendering THEN 0 ELSE @,
              !.guardFired = IF pendingUrl' # pendingUrl THEN FALSE ELSE @,
              \* the inputs the user typed into since the template was selected
              !.typed = IF name = "EditText" /\ selectedTemplate # Null
                        THEN @ \cup { i \in DOMAIN textLines' :
                                        i > Len(textLines) \/ textLines'[i] # textLines[i] }
                        ELSE IF name \in {"FetchTemplatesDone", "handleSelectTemplate",
                                          "TemplateInitEffect"}
                        THEN {} ELSE @]

\* the template initialization effect is due: it runs before any other event
InitDue ==
    /\ templateInitPending
    /\ selectedTemplate # Null
    /\ Len(availableColors) > 0
    /\ Len(availableFonts) > 0

\* the state of the component after its first render (the useState initial values)
AppInit ==
    /\ product = Null
    /\ textLines = <<InitialText>>
    /\ font = S_Block
    /\ color = Null
    /\ previewUrl = <<>> /\ pendingUrl = <<>> /\ displayedUrl = <<>>
    /\ isRendering = FALSE
    /\ availableFonts = <<>> /\ availableColors = <<>>
    /\ availableTemplates = <<>> /\ selectedTemplate = Null
    /\ availableDesigns = <<>> /\ selectedDesign = Null
    /\ imgKey = 0
    /\ lastRenderUrl = <<>>
    /\ templateInitPending = FALSE
    /\ fetches = [f \in {"product", "fonts", "colors", "templates", "designs"} |-> "pending"]
    /\ debounce = Null /\ guard = Null /\ img = Null /\ stale = {}
    /\ visibleLoading = FALSE
    /\ h = [last |-> "mount", edited |-> FALSE, edits |-> 0, run |-> 0, restarted |-> FALSE,
            age |-> 0, builds |-> 0,
            gate |-> FALSE, builtUrl |-> <<>>, builtAge |-> 0, raisedFor |-> 0,
            guardFired |-> FALSE, lastGood |-> <<>>, typed |-> {}]

Init == AppInit /\ fnArg = Null /\ fnRet = Null

-----------------------------------------------------------------------------
(* Catalog fetches (the mount effect, lines 1415-1517).  A fetch that       *)
(* throws is only logged: it leaves every variable as a fetch that is       *)
(* still pending does.                                                      *)

catalogs == <<availableFonts, availableColors, availableTemplates, availableDesigns>>
pipeline == <<previewUrl, pendingUrl, displayedUrl, isRendering, imgKey, lastRenderUrl>>
edit == <<textLines, font, color, selectedTemplate, selectedDesign>>

Effects(touched) == RenderEffect(touched) /\ PreloadEffect /\ GuardEffect /\ VisibleEffect

FetchProductDone ==
    /\ ~InitDue
    /\ fetches["product"] = "pending"
    /\ fetches' = [fetches EXCEPT !["product"] = "done"]
    /\ product' = Some(ProductResponse)
    /\ displayedUrl' = IF ProductResponse.ProductPreviewURL # <<>>
                       THEN ProductResponse.ProductPreviewURL ELSE displayedUrl
    /\ UNCHANGED <<edit, catalogs, previewUrl, pendingUrl, isRendering, imgKey, lastRenderUrl,
                   templateInitPending, fnArg, fnRet>>
    /\ Effects(FALSE)
    /\ h' = [NextH("other", FALSE) EXCEPT !.lastGood = displayedUrl']

\* f.FontType.split(',').map(type => type.trim()).includes(FONT_TYPE_FILTER)
RECURSIVE SplitComma(_)
SplitComma(s) ==
    IF \E i \in 1..Len(s) : s[i] = ","
    THEN LET i == CHOOSE k \in 1..Len(s) : s[k] = "," /\ \A m \in 1..(k - 1) : s[m] # ","
         IN <<SubSeq(s, 1, i - 1)>> \o SplitComma(Drop(s, i))
    ELSE <<s>>
IsTemplateFont(f) == \E i \in DOMAIN SplitComma(f.FontType) : trim(SplitComma(f.FontType)[i]) = FONT_TYPE_FILTER

FetchFontsDone ==
    /\ ~InitDue
    /\ fetches["fonts"] = "pending"
    /\ fetches' = [fetches EXCEPT !["fonts"] = "done"]
    /\ availableFonts' = SelectSeq(FontsResponse, IsTemplateFont)
    /\ UNCHANGED <<product, edit, pipeline, availableColors, availableTemplates, availableDesigns,
                   templateInitPending, fnArg, fnRet>>
    /\ Effects(FALSE)
    /\ h' = NextH("other", FALSE)

FetchColorsDone ==
    /\ ~InitDue
    /\ fetches["colors"] = "pending"
    /\ fetches' = [fetches EXCEPT !["colors"] = "done"]
    /\ \E data \in ColoursResponses : availableColors' = data
    /\ UNCHANGED <<product, edit, pipeline, availableFonts, availableTemplates, availableDesigns,
                   templateInitPending, fnArg, fnRet>>
    /\ Effects(TRUE)
    /\ h' = NextH("other", FALSE)

\* setTextLines(prev => { pad with '' up to count; slice(0, Math.min(MAX_TEXT_LINES, count)) })
ResizeLines(prev, count) ==
    LET padded == [i \in 1..Max(Len(prev), LeastLength(count)) |->
                       IF i <= Len(prev) THEN prev[i] ELSE <<>>]
    IN Take(padded, ToInteger(Min(Num(MAX_TEXT_LINES), count)))

\* what fetchTemplates and handleSelectTemplate both do with the chosen template
SelectTemplate(tpl) ==
    /\ selectedTemplate' = Some(tpl)
    /\ selectedDesign' = IF ~templateSupportsDesign(Some(tpl)) THEN Null ELSE selectedDesign
    /\ templateInitPending' = TRUE
    /\ textLines' = ResizeLines(textLines, getTemplateLineCount(Some(tpl)))

FetchTemplatesDone ==
    /\ ~InitDue
    /\ fetches["templates"] = "pending"
    /\ fetches' = [fetches EXCEPT !["templates"] = "done"]
    /\ \E data \in TemplatesResponses :
         LET withThumbs == SelectSeq(data, LAMBDA t : startsWith(t.Code, <<"R","B","G","_">>)) IN
         /\ availableTemplates' = withThumbs
         /\ IF Len(withThumbs) > 0
            THEN SelectTemplate(withThumbs[1])
            ELSE UNCHANGED <<selectedTemplate, selectedDesign, templateInitPending, textLines>>
    /\ UNCHANGED <<product, font, color, pipeline, availableFonts, availableColors, availableDesigns,
                   fnArg, fnRet>>
    /\ Effects(Len(availableTemplates') > 0)
    /\ h' = NextH("FetchTemplatesDone", Len(availableTemplates') > 0)

\* selectedDesign as fetchDesigns sees it: the value of the render that ran the mount effect
MountSelectedDesign == Null

FetchDesignsDone ==
    /\ ~InitDue
    /\ fetches["designs"] = "pending"
    /\ fetches' = [fetches EXCEPT !["designs"] = "done"]
    /\ availableDesigns' = DesignsResponse
    /\ selectedDesign' = IF MountSelectedDesign = Null /\ Len(DesignsResponse) > 0
                         THEN Some(DesignsResponse[1]) ELSE selectedDesign
    /\ UNCHANGED <<product, textLines, font, color, selectedTemplate, pipeline, availableFonts,
                   availableColors, availableTemplates, templateInitPending, fnArg, fnRet>>
    /\ Effects(FALSE)
    /\ h' = NextH("FetchDesignsDone", selectedDesign' # selectedDesign)

-----------------------------------------------------------------------------
(* The user's edits.  A click on the font, colour or design already selected *)
(* sets the state to the value it has: React renders nothing, no step.       *)

UserStep(name) ==
    /\ h' = [NextH(name, TRUE) EXCEPT !.edits = h.edits + 1]
    /\ UNCHANGED <<fetches, fnArg, fnRet>>

\* const next = [...textLines]; next[i] = e.target.value; setTextLines(next)
SetLine(lines, i, v) ==
    [k \in 1..Max(Len(lines), i) |-> IF k = i THEN v
                                     ELSE IF k <= Len(lines) THEN lines[k] ELSE Undefined]

\* TextInputsSection, onChange of input i (1-based here)
EditText(i, v) ==
    /\ ~InitDue
    /\ h.edits < MaxEdits
    /\ i \in 1..ToInteger(Min(Num(MAX_TEXT_LINES), ShownLineCount))
    \* the input shows textLines[i] ?? '': onChange fires when the value differs
    /\ v # (IF i <= Len(textLines) /\ textLines[i] # Undefined THEN textLines[i] ELSE <<>>)
    /\ textLines' = SetLine(textLines, i, v)
    /\ UNCHANGED <<product, font, color, selectedTemplate, selectedDesign, pipeline, catalogs,
                   templateInitPending>>
    /\ Effects(TRUE)
    /\ UserStep("EditText")

\* FontSelector: onSelect(f.FontName) is setFont
SelectFont(f) ==
    /\ ~InitDue
    /\ h.edits < MaxEdits
    /\ hasTextLines
    /\ f.FontName # font
    /\ font' = f.FontName
    /\ UNCHANGED <<product, textLines, color, selectedTemplate, selectedDesign, pipeline, catalogs,
                   templateInitPending>>
    /\ Effects(FALSE)
    /\ UserStep("SelectFont")

\* ColorSelector: onSelect(rgb) is setColor
SelectColor(c) ==
    /\ ~InitDue
    /\ h.edits < MaxEdits
    /\ hasTextLines
    /\ Some(rgbOf(c)) # color
    /\ color' = Some(rgbOf(c))
    /\ UNCHANGED <<product, textLines, font, selectedTemplate, selectedDesign, pipeline, catalogs,
                   templateInitPending>>
    /\ Effects(FALSE)
    /\ UserStep("SelectColor")

handleSelectTemplate(tpl) ==
    /\ ~InitDue
    /\ h.edits < MaxEdits
    /\ SelectTemplate(tpl)
    /\ UNCHANGED <<product, font, color, pipeline, catalogs>>
    /\ Effects(TRUE)
    /\ UserStep("handleSelectTemplate")

\* the Designs drawer is rendered only when templateSupportsDesign(selectedTemplate)
handleSelectDesign(d) ==
    /\ ~InitDue
    /\ h.edits < MaxEdits
    /\ templateSupportsDesign(selectedTemplate)
    /\ Some(d) # selectedDesign
    /\ selectedDesign' = Some(d)
    /\ UNCHANGED <<product, textLines, font, color, selectedTemplate, pipeline, catalogs,
                   templateInitPending>>
    /\ Effects(FALSE)
    /\ UserStep("handleSelectDesign")

-----------------------------------------------------------------------------
(* The template initialization effect (lines 1575-1601)                      *)

\* setFont(resolved || derived.font) when derived.font is set
InitFont(derivedFont, resolved) ==
    IF derivedFont # Null /\ Val(derivedFont) # <<>>
    THEN IF resolved # Null /\ Val(resolved) # <<>> THEN Val(resolved) ELSE Val(derivedFont)
    ELSE font

\* setColor(derived.colorRgb), else the default colour when none is set
InitColour(derivedRgb, white) ==
    IF Truthy(derivedRgb) THEN derivedRgb
    ELSE IF color = Null /\ white # Null THEN Some(rgbOf(Val(white)))
    ELSE color

\* what the effect sets from `derived`
ApplyDerived(d) ==
    /\ textLines' = Take(d.lines, MAX_TEXT_LINES)
    /\ font' = InitFont(d.font,
                        IF d.font = Null THEN Null
                        ELSE resolveFontFromOverride(Val(selectedTemplate), Val(d.font),
                                                     availableFonts))
    /\ color' = InitColour(d.colorRgb, First(SelectSeq(availableColors, LAMBDA c : c.Code = <<"1","8","0","1">>)))

TemplateInitEffect ==
    /\ InitDue
    /\ ApplyDerived(deriveControlsFromTemplate(Val(selectedTemplate), availableColors))
    /\ templateInitPending' = FALSE
    /\ UNCHANGED <<product, selectedTemplate, selectedDesign, pipeline, catalogs, fetches, fnArg, fnRet>>
    /\ Effects(TRUE)
    /\ h' = NextH("TemplateInitEffect", TRUE)

-----------------------------------------------------------------------------
(* Timers *)

\* d ticks pass: every pending timer comes d nearer to its deadline
TimePasses(d) ==
    /\ debounce' = IF debounce # Null THEN Some([Val(debounce) EXCEPT !.left = @ - d]) ELSE Null
    /\ guard' = IF guard # Null THEN Some(Val(guard) - d) ELSE Null
    /\ UNCHANGED <<react, fetches, img, stale, visibleLoading, fnArg, fnRet>>
    /\ h' = [h EXCEPT !.last = "other", !.edited = FALSE, !.restarted = FALSE,
                      !.age = Min(@ + d, DebounceTicks + 1),
                      !.raisedFor = Min(@ + d, GuardTicks + 1)]

\* the time until the earliest pending timer is due; a timer that is due
\* fires before more time passes
Elapse == IF debounce # Null /\ (guard = Null \/ Val(debounce).left <= Val(guard))
          THEN Val(debounce).left ELSE Val(guard)

Tick ==
    /\ ~InitDue
    /\ debounce # Null \/ guard # Null
    \* a timer that is due fires before more time passes
    /\ debounce # Null => Val(debounce).left > 0
    /\ guard # Null => Val(guard) > 0
    \* up to the next deadline, or one tick while the debounce timer runs (an
    \* edit may come mid-interval)
    /\ \E d \in {Elapse} \cup (IF debounce # Null THEN {1} ELSE {}) : TimePasses(d)

\* mutant: every built URL is issued, equal to the last one or not
IsNewUrl_always(newUrl, last) == TRUE

\* if (newUrl !== lastRenderUrl)
IsNewUrl(newUrl, last) == newUrl # last

\* if (newUrl !== lastRenderUrl) { setIsRendering(true); setPendingUrl(newUrl);
\* setLastRenderUrl(newUrl); }
IssueRender(newUrl, last) ==
    /\ IF IsNewUrl(newUrl, last)
       THEN /\ isRendering' = TRUE
            /\ pendingUrl' = newUrl
            /\ lastRenderUrl' = newUrl
       ELSE UNCHANGED <<isRendering, pendingUrl, lastRenderUrl>>
    /\ h' = [NextH(IF IsNewUrl(newUrl, last) THEN "DebounceFireNew" ELSE "DebounceFireSame", FALSE)
             EXCEPT !.builds = Min(h.builds + 1, 2), !.builtUrl = newUrl, !.builtAge = h.age]

\* the debounced callback (lines 1605-1648)
DebounceFire ==
    /\ ~InitDue
    /\ debounce # Null /\ Val(debounce).left = 0
    /\ IssueRender(BuildRenderUrl(Val(debounce).env), Val(debounce).env.lastRenderUrl)
    /\ UNCHANGED <<product, edit, catalogs, previewUrl, displayedUrl, imgKey,
                   templateInitPending, fetches, fnArg, fnRet>>
    /\ debounce' = Null
    /\ PreloadEffect /\ GuardEffect /\ VisibleEffect

\* setTimeout(() => setIsRendering(false), 10000)
GuardFire ==
    /\ ~InitDue
    /\ guard # Null /\ Val(guard) = 0
    /\ isRendering' = FALSE
    /\ UNCHANGED <<product, edit, catalogs, previewUrl, pendingUrl, displayedUrl, imgKey,
                   lastRenderUrl, templateInitPending, fetches, debounce, fnArg, fnRet>>
    /\ PreloadEffect /\ GuardEffect /\ VisibleEffect
    /\ h' = [NextH("GuardFire", FALSE) EXCEPT !.guardFired = TRUE]

-----------------------------------------------------------------------------
(* Image loads *)

\* mutant: onerror shows the URL that failed
OnErrorDisplayed_broken(url) == url

\* img.onerror leaves displayedUrl alone
OnErrorDisplayed(url) == displayedUrl

\* img.onload of an image whose handlers are attached; nothing when detached
OnLoad(image) ==
    IF image.handlers
    THEN /\ previewUrl' = image.url
         /\ displayedUrl' = image.url
         /\ imgKey' = imgKey + 1
         /\ isRendering' = FALSE
    ELSE UNCHANGED <<previewUrl, displayedUrl, imgKey, isRendering>>

\* img.onerror of an image whose handlers are attached; nothing when detached
OnError(image) ==
    IF image.handlers
    THEN /\ isRendering' = FALSE
         /\ displayedUrl' = OnErrorDisplayed(image.url)
         /\ UNCHANGED <<previewUrl, imgKey>>
    ELSE UNCHANGED <<previewUrl, displayedUrl, imgKey, isRendering>>

ImageStep ==
    /\ UNCHANGED <<product, edit, catalogs, pendingUrl, lastRenderUrl, templateInitPending,
                   fetches, debounce, fnArg, fnRet>>
    /\ GuardEffect /\ VisibleEffect

\* the off-screen load of the current pendingUrl succeeds
ImgLoad ==
    /\ ~InitDue
    /\ img # Null /\ Val(img).status = "loading"
    /\ OnLoad(Val(img))
    /\ img' = Some([Val(img) EXCEPT !.status = "loaded"])
    /\ UNCHANGED stale
    /\ ImageStep
    /\ h' = [NextH("ImgLoad", FALSE) EXCEPT !.lastGood = Val(img).url]

\* the off-screen load of the current pendingUrl fails
ImgError ==
    /\ ~InitDue
    /\ img # Null /\ Val(img).status = "loading"
    /\ OnError(Val(img))
    /\ img' = Some([Val(img) EXCEPT !.status = "failed"])
    /\ UNCHANGED stale
    /\ ImageStep
    /\ h' = NextH("ImgError", FALSE)

\* the load of a superseded image succeeds
StaleImgLoad(image) ==
    /\ ~InitDue
    /\ image \in stale
    /\ OnLoad(image)
    /\ stale' = stale \ {image}
    /\ UNCHANGED img
    /\ ImageStep
    /\ h' = [NextH("StaleImgDone", FALSE) EXCEPT !.lastGood = IF image.handlers THEN image.url ELSE @]

\* the load of a superseded image fails
StaleImgError(image) ==
    /\ ~InitDue
    /\ image \in stale
    /\ OnError(image)
    /\ stale' = stale \ {image}
    /\ UNCHANGED img
    /\ ImageStep
    /\ h' = NextH("StaleImgDone", FALSE)

\* onLoad / onError of the visible <img>: onLoaded={() => setIsRendering(false)}
VisibleImgEvent ==
    /\ ~InitDue
    /\ visibleLoading
    /\ isRendering' = FALSE
    /\ visibleLoading' = FALSE
    /\ UNCHANGED <<product, edit, catalogs, previewUrl, pendingUrl, displayedUrl, imgKey,
                   lastRenderUrl, templateInitPending, fetches, debounce, img, stale, fnArg, fnRet>>
    /\ GuardEffect
    /\ h' = NextH("VisibleImgEvent", FALSE)

-----------------------------------------------------------------------------

Next ==
    \/ FetchProductDone
    \/ FetchFontsDone
    \/ FetchColorsDone
    \/ FetchTemplatesDone
    \/ FetchDesignsDone
    \/ \E i \in 1..MAX_TEXT_LINES : \E v \in TextValues : EditText(i, v)
    \/ \E k \in DOMAIN availableFonts : SelectFont(availableFonts[k])
    \/ \E k \in DOMAIN availableColors : SelectColor(availableColors[k])
    \/ \E k \in DOMAIN availableTemplates : handleSelectTemplate(availableTemplates[k])
    \/ \E k \in DOMAIN availableDesigns : handleSelectDesign(availableDesigns[k])
    \/ TemplateInitEffect
    \/ Tick
    \/ DebounceFire
    \/ GuardFire
    \/ ImgLoad
    \/ ImgError
    \/ \E image \in stale : StaleImgLoad(image)
    \/ \E image \in stale : StaleImgError(image)
    \/ VisibleImgEvent

Spec == Init /\ [][Next]_vars

\* the debounced callback is due: DebounceFire is enabled
DebounceDue == ~InitDue /\ debounce # Null /\ Val(debounce).left = 0

\* the browser's event loop runs every timer that is due and every effect
\* that is due; nothing is assumed of the network (a fetch or an image load
\* may never complete) or of the user.  DebounceFire and TemplateInitEffect
\* are enabled exactly when DebounceDue and InitDue hold and end them, so
\* their weak fairness is that these do not hold for ever.
SpecFair ==
    /\ Spec
    /\ WF_vars(Tick)
    /\ WF_vars(GuardFire)
    /\ []<>~DebounceDue
    /\ []<>~InitDue

\* A catalog fetch that fails (the try/catch of each fetcher).  `body` is what
\* the response holds: "none", fetch() rejects (network error); "text", a body
\* that is not JSON, so that res.json() or JSON.parse throws; "object", a JSON
\* object where a list or a product is expected, such as the error body the
\* proxy relays with the upstream status.  No fetcher looks at res.ok.  An
\* object that is not a product has no Code and no ProductPreviewURL; an object
\* is not an array for fetchTemplates and fetchDesigns, which go on with [];
\* data.filter throws in fetchFonts.  setAvailableColors(data) would store the
\* object, which is no list the component can render: that response is left out.
FetchFailed(f, body) ==
    /\ ~InitDue
    /\ fetches[f] = "pending"
    /\ f = "colors" => body # "object"
    /\ fetches' = [fetches EXCEPT ![f] = "failed"]
    /\ product' = IF f = "product" /\ body = "object" THEN Some(Product(Undefined, <<>>))
                  ELSE product
    /\ availableTemplates' = IF f = "templates" /\ body = "object" THEN <<>> ELSE availableTemplates
    /\ availableDesigns' = IF f = "designs" /\ body = "object" THEN <<>> ELSE availableDesigns
    /\ UNCHANGED <<edit, pipeline, availableFonts, availableColors, templateInitPending,
                   fnArg, fnRet>>
    /\ Effects(FALSE)
    /\ h' = NextH("other", FALSE)

\* the mount effect alone, every fetch succeeding or failing
SpecFetch ==
    Init /\ [][\/ FetchProductDone \/ FetchFontsDone \/ FetchColorsDone
               \/ FetchTemplatesDone \/ FetchDesignsDone
               \/ \E f \in DOMAIN fetches : \E body \in {"none", "text", "object"} : FetchFailed(f, body)
               \/ TemplateInitEffect]_vars

-----------------------------------------------------------------------------
(* The helpers applied on their own: fnArg holds the argument, fnRet the     *)
(* result once the helper has returned.  The component stays as mounted.     *)

MaxElems == 4            \* elements of a template handed to getTemplateLineCount
MaxCount == 4            \* the largest explicit line count, as a whole number
MaxLines == 3            \* entries of textLines handed to the URL builder

\* the sequences over S of length 0..n
SeqsUpTo(S, n) == UNION { [1..m -> S] : m \in 0..n }

\* the component has run no handler
AppIdle == UNCHANGED <<react, fetches, debounce, guard, img, stale, visibleLoading, h>>

\* numbers an explicit count field may hold: negative, fractional, beyond 3
ExplicitValues == (0 - Denominator)..Num(MaxCount)

\* the templates getTemplateLineCount is applied to, and no template
LineCountArgs ==
    LET \* TextLines, NumberOfTextLines, Lines: each alone, none, and two together
        explicitFields ==
            {<<Null, Null, Null>>}
            \cup { <<Some(v), Null, Null>> : v \in ExplicitValues }
            \cup { <<Null, Some(v), Null>> : v \in ExplicitValues }
            \cup { <<Null, Null, Some(v)>> : v \in ExplicitValues }
            \cup { <<Some(v), Some(Num(1)), Null>> : v \in {0 - 1, Num(MaxCount)} }
        \* an element without Text, with empty, blank and non-empty Text
        elementKinds ==
            { Element(S_Line1, t, <<>>, <<>>) : t \in {Null, Some(<<>>), Some(<<" ">>), Some(<<"T">>)} }
        \* TemplateElements: not an array, or a list of up to MaxElems elements
        elementLists == {Null} \cup { Some(els) : els \in SeqsUpTo(elementKinds, MaxElems) }
        templateNames ==
            { <<>>, <<"T","w","o">>, <<"R","o","w"," ","3">>, <<"O","n","e">>, <<"A","2","3">>,
              <<"D","e","s","i","g","n"," ","O","n","l","y">> }
    IN {Null}
       \cup { Some(Template(<<"R","B","G","_","1">>, name, f[1], f[2], f[3], els)) :
                name \in {<<>>, <<"T","w","o">>}, f \in explicitFields,
                els \in {Null, Some(<<>>)}
                        \cup {Some([i \in 1..MaxElems |-> Element(S_Line1, Some(<<"T">>), <<>>, <<>>)])} }
       \cup { Some(Template(<<"R","B","G","_","1">>, name, Null, Null, Null, els)) :
                name \in templateNames, els \in elementLists }

InitLineCount == AppInit /\ fnRet = Null /\ fnArg \in { Some(ot) : ot \in LineCountArgs }

ApplyLineCount ==
    /\ fnRet = Null
    /\ fnRet' = Some(getTemplateLineCount(Val(fnArg)))
    /\ UNCHANGED fnArg
    /\ AppIdle

SpecLineCount == InitLineCount /\ [][ApplyLineCount]_vars

\* what a text line may hold: nothing, blanks, text, a hole of the array
LineValues == { <<>>, <<" ">>, <<"A">>, <<"C">>, Undefined }

\* the values the debounced callback may close over, product and colour set
BuildArgs ==
    { [product |-> Some(ProductResponse), color |-> Some(rgbOf(palette[1])),
       availableColors |-> palette, selectedTemplate |-> tpl, textLines |-> lines,
       font |-> S_Block, selectedDesign |-> design, lastRenderUrl |-> <<>>] :
      \* the palettes of the gateway, and one whose colour name holds an '&'
      palette \in ColoursResponses
                  \cup { << Colour(<<"1","9","5","0">>, <<"1","9","5","0"," ","-"," ","B","&","W">>, 0, 0, 0) >> },
      tpl \in {Null, Some(TplA), Some(TplB)},
      lines \in SeqsUpTo(LineValues, MaxLines),
      design \in {Null, Some(DesignsResponse[1]), Some(Design(<<"3">>, <<" ">>))} }

InitBuild == AppInit /\ fnRet = Null /\ fnArg \in { Some(env) : env \in BuildArgs }

ApplyBuild ==
    /\ fnRet = Null
    /\ fnRet' = Some([entries |-> Personalizations(Val(fnArg)), url |-> BuildRenderUrl(Val(fnArg))])
    /\ UNCHANGED fnArg
    /\ AppIdle

SpecBuild == InitBuild /\ [][ApplyBuild]_vars

\* a helper called on its own: the application is idle, nothing is returned yet
\* and the argument is one of args
InitApplied(args) ==
    /\ AppInit
    /\ fnRet = Null
    /\ fnArg \in { Some(a) : a \in args }

MaxNamed == 3            \* elements of a template handed to getElementNamesForTemplate

ApplyNames ==
    /\ fnRet = Null
    /\ fnRet' = Some(getElementNamesForTemplate(Val(fnArg).template, Val(fnArg).count))
    /\ UNCHANGED fnArg
    /\ AppIdle

\* the templates and counts getElementNamesForTemplate is applied to: no
\* template, no elements list, and lists of up to MaxNamed elements whose names
\* fall in every rank; one element has no Text, one has no name
SpecNames ==
    /\ InitApplied(
            LET names == { <<"T","o","p">>, <<"B","o","t","t","o","m">>, <<"T","e","x","t">>,
                           <<"L","i","n","e","1">>, <<"L","i","n","e","2">>, <<"L","i","n","e","3">>,
                           <<"L","i","n","e","1","0">>, <<" ","U","p","p","e","r"," ">>,
                           <<"Z","e","d">>, <<"a","b","c">>, <<>> }
                kinds == { Element(n, Some(<<>>), <<>>, <<>>) : n \in names }
                         \cup { Element(<<"T","o","p">>, Null, <<>>, <<>>) }
                templates == {Null, Some(Template(<<"R","B","G","_","1">>, <<>>, Null, Null, Null, Null))}
                             \cup { Some(Template(<<"R","B","G","_","1">>, <<>>, Null, Null, Null, Some(els))) :
                                      els \in SeqsUpTo(kinds, MaxNamed) }
            IN { [template |-> ot, count |-> c] : ot \in templates, c \in 0..MaxLines })
    /\ [][ApplyNames]_vars

MaxPalette == 3          \* entries of a palette handed to findColourRgbFromTemplateValue

ApplyFindColour ==
    /\ fnRet = Null
    /\ fnRet' = Some(findColourRgbFromTemplateValue(Val(fnArg).value, Val(fnArg).colours))
    /\ UNCHANGED fnArg
    /\ AppIdle

\* the values and palettes findColourRgbFromTemplateValue is applied to: a
\* palette is any list of up to MaxPalette of three entries, the empty one
\* included; the values are the forms a template writes a colour in
SpecFindColour ==
    /\ InitApplied(
            LET entries == { Colour(<<"1","8","4","2">>, <<"1","8","4","2"," ","-"," ","R","o","y","a","l"," ","B","l","u","e">>, 0, 0, 255),
                             Colour(<<"1","8","4","0">>, <<"1","8","4","0"," ","-"," ","L","i","g","h","t"," ","R","o","y","a","l"," ","B","l","u","e">>, 9, 9, 255),
                             Colour(<<"1","8","0","1">>, <<"1","8","0","1"," ","-"," ","W","h","i","t","e">>, 255, 255, 255) }
                values == { <<"1","8","4","2"," ","-"," ","R","o","y","a","l"," ","B","l","u","e">>,
                            <<"1","8","4","2">>, <<"R","o","y","a","l"," ","B","l","u","e">>,
                            <<"#","F","F","0","0","0","0">>, <<"f","f","0","0","0","0">>,
                            <<"r","g","b","(","1",","," ","2",","," ","3",")">>,
                            <<"9","9","9"," ","-"," ","w","h","i","t","e">>, <<"G","o","l","d">>, <<>> }
            IN { [value |-> v, colours |-> p] : v \in values, p \in SeqsUpTo(entries, MaxPalette) })
    /\ [][ApplyFindColour]_vars

MaxFonts == 3            \* fonts of a catalog handed to resolveFontFromOverride

ApplyFont ==
    /\ fnRet = Null
    /\ fnRet' = Some(resolveFontFromOverride(Val(fnArg).tpl, Val(fnArg).override, Val(fnArg).fonts))
    /\ UNCHANGED fnArg
    /\ AppIdle

\* the templates, overrides and catalogs resolveFontFromOverride is applied
\* to: a catalog is any list of up to MaxFonts of five fonts, two of them alike
\* but for a space; a table maps each Pulse font at most once
SpecFont ==
    /\ InitApplied(
            LET names == { <<"B","l","o","c","k">>, <<"B","l","o">>, <<"S","c","r","i","p","t">>,
                           <<"B","l","o","c","k"," ","R","e","g","u","l","a","r">>,
                           <<"B","l","o","c","k","R","e","g","u","l","a","r">> }
                overrides == { <<"b","l","o","c","k">>, <<"B","L","O","C","K",".","T","T","F">>,
                               <<"b","l","o","c","k","r","e","g","u","l","a","r">>,
                               <<"B","l","o","c","k","-","R","e","g","u","l","a","r",".","o","t","f">>,
                               <<"S","C","R">>, <<"S","c","r","i","p","t"," ","B","o","l","d">>,
                               <<" ","b","l","o"," ">>, <<"z","z">>, <<>> }
                tables == { <<>>,
                            << FontMap(<<"s","c","r">>, <<"s","c","r","i","p","t">>) >>,
                            << FontMap(<<"s","c","r">>, <<"G","o","n","e">>) >>,
                            << FontMap(<<"s","c","r">>, <<>>) >>,
                            << FontMap(<<"z","z">>, <<"B","l","o">>),
                               FontMap(<<"B","l","o","c","k">>, <<"S","c","r","i","p","t">>) >> }
            IN { [tpl |-> [TplC EXCEPT !.TemplateFonts = tf], override |-> ov,
                  fonts |-> [i \in DOMAIN ns |-> FontEntry(ns[i], FONT_TYPE_FILTER)]] :
                 tf \in tables, ov \in overrides, ns \in SeqsUpTo(names, MaxFonts) })
    /\ [][ApplyFont]_vars

\* the initialization effect seeds textLines with deriveControlsFromTemplate's
\* lines; the render callback then names them by
\* getElementNamesForTemplate(selectedTemplate, textLines.length)
ApplyLockstep ==
    /\ fnRet = Null
    /\ fnRet' = LET lines == Take(deriveControlsFromTemplate(Val(fnArg), <<>>).lines, MAX_TEXT_LINES)
                IN Some([lines |-> lines,
                         names |-> getElementNamesForTemplate(fnArg, Len(lines))])
    /\ UNCHANGED fnArg
    /\ AppIdle

\* the templates the two orderings are compared on: lists of up to MaxNamed
\* elements, each with a text of its own; names of every rank, one padded with
\* a blank, one element without a name and one without a text
SpecLockstep ==
    /\ InitApplied(
            LET named == { <<"T","o","p">>, <<"B","o","t","t","o","m">>, <<"L","i","n","e","1">>,
                           <<"L","i","n","e","2">>, <<"L","i","n","e","3">>, <<"Z","e","d">>,
                           <<"a","b","c">>, <<" ","b","e","e">> }
                kinds == { Element(n, Some(<<"t","e","x","t"," ","o","f"," ">> \o trim(n)), <<>>, <<>>) : n \in named }
                         \cup { Element(<<>>, Some(<<"n","o"," ","n","a","m","e">>), <<>>, <<>>),
                                Element(<<"D","e","s","i","g","n">>, Null, <<>>, <<>>) }
            IN { Template(<<"R","B","G","_","1">>, <<>>, Null, Null, Null, Some(els)) :
                   els \in SeqsUpTo(kinds, MaxNamed) })
    /\ [][ApplyLockstep]_vars

\* ColorSelector: a click on swatch `pick` of the palette calls
\* onSelect(`rgb(${c.Red}, ${c.Green}, ${c.Blue})`), which is setColor; the
\* render callback then sends getColorCode(color, availableColors).  pick = 0:
\* the colour is an RGB string of no entry
ApplyColorCode ==
    /\ fnRet = Null
    /\ fnRet' = LET a == Val(fnArg)
                    rgb == IF a.pick = 0 THEN <<"r","g","b","(","1",","," ","2",","," ","3",")">>
                           ELSE rgbOf(a.colours[a.pick])
                IN Some(getColorCode(Some(rgb), a.colours))
    /\ UNCHANGED fnArg
    /\ AppIdle

\* the palettes: any list of up to MaxPalette of four entries, two of which
\* have the same RGB triple, and any swatch of it
SpecColorCode ==
    /\ InitApplied(
            LET entries == { Colour(<<"1","8","0","1">>, <<"1","8","0","1"," ","-"," ","W","h","i","t","e">>, 255, 255, 255),
                             Colour(<<"1","0","0","1">>, <<"1","0","0","1"," ","-"," ","S","n","o","w">>, 255, 255, 255),
                             Colour(<<"1","8","4","2">>, <<"1","8","4","2"," ","-"," ","B","l","u","e">>, 0, 0, 255),
                             Colour(<<"1","9","0","0">>, <<"1","9","0","0"," ","-"," ","R","e","d">>, 255, 0, 0) }
            IN { [colours |-> cs, pick |-> k] : cs \in SeqsUpTo(entries, MaxPalette), k \in 0..MaxPalette }
               \ { a \in [colours : SeqsUpTo(entries, MaxPalette), pick : 0..MaxPalette] : a.pick > Len(a.colours) })
    /\ [][ApplyColorCode]_vars

-----------------------------------------------------------------------------
(* Template thumbnails (getTemplateThumbnail, lines 1352-1365), as           *)
(* fetchTemplates calls it for the codes of the list, lines 1465-1469.       *)
(* fnArg holds the codes, fnRet the progress: the number of the next call,   *)
(* the requests sent to the gateway, the calls awaiting their response and   *)
(* the codes setTemplateThumbByCode has stored.                              *)

\* templateThumbByCode as getTemplateThumbnail reads it: fetchTemplates is
\* created by the mount effect and calls the getTemplateThumbnail of the first
\* render, whose templateThumbByCode is the useState initial value {}
MountThumbByCode == {}

ThumbProgress ==
    IF fnRet = Null THEN [next |-> 1, sent |-> <<>>, open |-> {}, stored |-> {}] ELSE Val(fnRet)

\* rbg.map(async t => await getTemplateThumbnail(t.Code)): each call runs up to
\* its `await fetch(...)` before the next one starts, and before any response
getTemplateThumbnail ==
    /\ fnArg # Null
    /\ ThumbProgress.next <= Len(Val(fnArg))
    /\ fnRet' = LET p == ThumbProgress
                    code == Val(fnArg)[p.next]
                IN Some(IF code \in MountThumbByCode
                        THEN [p EXCEPT !.next = @ + 1]
                        ELSE [p EXCEPT !.next = @ + 1, !.sent = Append(@, code),
                                       !.open = @ \cup {p.next}])
    /\ UNCHANGED fnArg
    /\ AppIdle

\* the response of call k arrives: setTemplateThumbByCode(prev => ({...prev, [code]: proxied}))
ThumbnailArrives(k) ==
    /\ fnArg # Null
    /\ ThumbProgress.next > Len(Val(fnArg))
    /\ k \in ThumbProgress.open
    /\ fnRet' = Some([ThumbProgress EXCEPT !.open = @ \ {k}, !.stored = @ \cup {Val(fnArg)[k]}])
    /\ UNCHANGED fnArg
    /\ AppIdle

\* the request of call k fails: the catch block returns '' and stores nothing
ThumbnailFails(k) ==
    /\ fnArg # Null
    /\ ThumbProgress.next > Len(Val(fnArg))
    /\ k \in ThumbProgress.open
    /\ fnRet' = Some([ThumbProgress EXCEPT !.open = @ \ {k}])
    /\ UNCHANGED fnArg
    /\ AppIdle

MaxTemplates == 3        \* templates of the list whose thumbnails are fetched

\* the lists of template codes: up to MaxTemplates of three codes, so that a
\* list may hold a code more than once
SpecThumbnails ==
    /\ InitApplied(SeqsUpTo({ <<"R","B","G","_","A">>, <<"R","B","G","_","B">>, <<"R","B","G","_","C">> },
                            MaxTemplates))
    /\ [][\/ getTemplateThumbnail
          \/ \E k \in 1..MaxTemplates : ThumbnailArrives(k)
          \/ \E k \in 1..MaxTemplates : ThumbnailFails(k)]_vars

-----------------------------------------------------------------------------
(* The render pipeline                                                       *)

\* the step is the completion (load or error) of a superseded off-screen load
StaleCompletes == \E image \in stale : stale' = stale \ {image}

\* both loads are over: the current one succeeded
CurrentLoaded == img # Null /\ Val(img).status = "loaded"

FireLabels == {"DebounceFireNew", "DebounceFireSame"}

(* C2: when the last of a run of edits was made with product and colour set, *)
(* at most one render URL is built after it; until then the build is pending *)
(* for exactly one debounce interval after that edit and closes over the     *)
(* edit state as that edit left it; the build happens one interval after the *)
(* last edit and its URL is the URL of that edit state, not of an earlier    *)
(* one.                                                                      *)
C2_DebounceCoalescing ==
    h.gate =>
        /\ h.builds <= 1
        /\ h.builds = 0 =>
               debounce = Some([left |-> DebounceTicks - h.age, env |-> CurrentEnv])
        /\ h.builds = 1 =>
               /\ debounce = Null
               /\ h.builtAge = DebounceTicks
               /\ h.builtUrl = BuildRenderUrl(CurrentEnv)

\* a run of two or more edits, each within the interval of the one before, was
\* followed by its one build
C2_Witness ==
    /\ h.gate /\ h.run >= 2
    /\ h.last \in FireLabels
    /\ h.builds = 1

(* C3: a firing of the debounce timer whose built URL equals lastRenderUrl   *)
(* changes none of pendingUrl, lastRenderUrl, displayedUrl, previewUrl and   *)
(* the rendering indicator, and starts no off-screen load.                   *)
C3_SameUrlNoOp ==
    [][(h'.last \in FireLabels /\ BuildRenderUrl(Val(debounce).env) = lastRenderUrl)
       => UNCHANGED <<pendingUrl, lastRenderUrl, displayedUrl, previewUrl, isRendering,
                      imgKey, img, stale>>]_vars

\* the timer has just fired with a URL equal to the one issued last
C3_Witness ==
    /\ h.last = "DebounceFireSame"
    /\ h.builtUrl = lastRenderUrl
    /\ lastRenderUrl # <<>>

(* C4: the failure of the off-screen load of the current pending URL clears  *)
(* the rendering indicator and leaves displayedUrl as it was; displayedUrl   *)
(* is always the product preview or the URL of the last load that succeeded, *)
(* never a URL whose load failed.                                            *)
C4_LoadFailureKeepsImage ==
    /\ [][h'.last = "ImgError" => ~isRendering' /\ displayedUrl' = displayedUrl]_vars
    /\ [](displayedUrl = h.lastGood)

\* the current load has just failed and the image shown is an earlier one
C4_Witness ==
    /\ h.last = "ImgError"
    /\ img # Null /\ Val(img).status = "failed"
    /\ ~isRendering
    /\ displayedUrl # pendingUrl /\ displayedUrl # <<>>

(* C5: while the rendering indicator is raised the guard timer is pending    *)
(* and due 10 s after the indicator was raised; its firing clears the        *)
(* indicator and leaves pendingUrl and the off-screen loads as they are; a   *)
(* success of the current load after the guard fired still makes its URL     *)
(* the displayed one.                                                        *)
C5_GuardTimer ==
    /\ [](isRendering => guard = Some(GuardTicks - h.raisedFor))
    /\ [][h'.last = "GuardFire"
          => /\ h.raisedFor = GuardTicks
             /\ isRendering /\ ~isRendering'
             /\ UNCHANGED <<pendingUrl, lastRenderUrl, displayedUrl, img, stale>>]_vars
    /\ [][(h'.last = "ImgLoad" /\ h.guardFired)
          => displayedUrl' = pendingUrl /\ previewUrl' = pendingUrl]_vars

\* after the guard cleared the indicator the load succeeded and its URL is shown
C5_Witness ==
    /\ h.guardFired
    /\ h.last = "ImgLoad"
    /\ displayedUrl = pendingUrl

-----------------------------------------------------------------------------
(* The edit state                                                            *)

\* the URL holds a Design personalization entry
HasDesignEntry(url) == \E i \in DOMAIN url : url[i] = "].ElementName=Design"

(* C7: a render URL built from the current edit state holds a Design         *)
(* personalization entry only if a design is selected and the selected       *)
(* template has an element named 'Design'.                                   *)
C7_DesignEntryOnlyWhenSupported ==
    (h.builds >= 1 /\ HasDesignEntry(h.builtUrl))
        => selectedDesign # Null /\ templateSupportsDesign(selectedTemplate)

(* C8: when the template initialization effect has run for the selected     *)
(* template, textLines has as many entries as getTemplateLineCount gives     *)
(* for that template.                                                        *)
C8_LinesMatchTemplateCount ==
    (h.last = "TemplateInitEffect" /\ selectedTemplate # Null /\ ~templateInitPending)
        => Num(Len(textLines)) = getTemplateLineCount(selectedTemplate)

(* C9, as stated: after every edit of the edit state a debounce timer is     *)
(* pending with the whole interval ahead of it.                              *)
C9_EveryEditRestartsTimer ==
    h.edited => debounce # Null /\ Val(debounce).left = DebounceTicks

(* C9, amended: after an edit made with product and colour set, in whatever  *)
(* pipeline state, the one pending debounce timer has the whole interval     *)
(* ahead of it and closes over the edit state the edit produced; after an    *)
(* edit made before product and colour are set no timer is pending.          *)
C9_EditRestartsTimerWhenGateOpen ==
    h.edited =>
        IF RenderGate(product, color)
        THEN debounce = Some([left |-> DebounceTicks, env |-> CurrentEnv])
        ELSE debounce = Null

\* an edit made while a load was in flight has just cancelled a timer that had
\* partly run and started a new one
C9_Witness ==
    /\ h.edited /\ h.restarted
    /\ isRendering
    /\ debounce # Null /\ Val(debounce).left = DebounceTicks

-----------------------------------------------------------------------------
(* The helpers                                                               *)

\* the positions of the lines whose trimmed text is not empty
NonEmptyPositions(lines) == { i \in DOMAIN lines : IsNonEmptyLine(lines[i]) }

\* the position of the j-th of them
NthPosition(lines, j) ==
    CHOOSE i \in NonEmptyPositions(lines) :
        Cardinality({ m \in NonEmptyPositions(lines) : m < i }) = j - 1

\* the name the builder gives the line at position i
NameAt(names, i) == IF i <= Len(names) /\ names[i] # <<>> THEN names[i] ELSE LineN(i)

\* the entry indices read back from a URL, in the order they are written
EntryStarts(url) ==
    { p \in 1..(Len(url) - 2) :
        url[p] = "&Personalizations[" /\ url[p + 2] \in {"].ElementName=", "].ElementName=Design"} }
EntryIndexAt(url, j) ==
    Chars.valueOf[url[(CHOOSE p \in EntryStarts(url) :
                        Cardinality({ q \in EntryStarts(url) : q < p }) = j - 1) + 1]]

\* the statement of C6 for the lines, the names, the entries and the URL
ContiguousEntries(lines, names, entries, url) ==
    LET k == Cardinality(NonEmptyPositions(lines)) IN
    /\ Len(entries) \in {k, k + 1}
    /\ \A j \in 1..k :
         /\ entries[j].IsText
         /\ entries[j].index = j - 1
         /\ entries[j].Text = lines[NthPosition(lines, j)]
         /\ entries[j].ElementName = NameAt(names, NthPosition(lines, j))
    /\ Len(entries) = k + 1 => ~entries[k + 1].IsText /\ entries[k + 1].index = k
    /\ Cardinality(EntryStarts(url)) = Len(entries)
    /\ \A j \in 1..Len(entries) : EntryIndexAt(url, j) = j - 1

(* C6: for every list of text lines with k lines whose trimmed text is not   *)
(* empty, the built URL holds exactly k text entries, numbered 0..k-1 in     *)
(* line order without gaps, each with the text and the element name of its   *)
(* line's original position; a Design entry, when there is one, has index k. *)
C6_ContiguousIndices ==
    fnRet # Null =>
        ContiguousEntries(Val(fnArg).textLines,
                          getElementNamesForTemplate(Val(fnArg).selectedTemplate,
                                                     Len(Val(fnArg).textLines)),
                          Val(fnRet).entries, Val(fnRet).url)

\* the lines [A, '', C] gave two text entries, 0 and 1, the second named after
\* position 3, and a Design entry with index 2
C6_Witness ==
    /\ fnRet # Null
    /\ Val(fnArg).textLines = << <<"A">>, <<>>, <<"C">> >>
    /\ Len(Val(fnRet).entries) = 3
    /\ Val(fnRet).entries[2].index = 1
    /\ Val(fnRet).entries[2].Text = <<"C">>
    /\ Val(fnRet).entries[2].ElementName = <<"L","i","n","e","3">>
    /\ Val(fnRet).entries[3].index = 2 /\ ~Val(fnRet).entries[3].IsText

\* the explicit count field of the argument is absent or a whole number
ExplicitIsWhole(ot) ==
    ot = Null \/ ExplicitLineCount(Val(ot)) = Null \/ IsInteger(Val(ExplicitLineCount(Val(ot))))

-----------------------------------------------------------------------------
(* C11 *)

\* the template carries an elements list and no element of it has a Text
\* string with a character that is not white space
NoTextBearingElement(ot) ==
    /\ ot # Null
    /\ Val(ot).TemplateElements # Null
    /\ \A i \in DOMAIN Val(Val(ot).TemplateElements) :
          LET text == Val(Val(ot).TemplateElements)[i].Text IN
          text = Null \/ \A k \in DOMAIN Val(text) : Val(text)[k] \in {" ", "\t"}

(* C11, as stated: for every template that carries an elements list in      *)
(* which no element has a non-empty Text string, getTemplateLineCount        *)
(* returns 0.                                                                *)
C11_NoTextElementsIsZero ==
    fnRet # Null /\ NoTextBearingElement(Val(fnArg)) => Val(fnRet) = 0

(* C11, amended: for every template without an explicit count field that    *)
(* carries an elements list in which no element has a non-empty Text         *)
(* string, getTemplateLineCount returns 0, whatever its name and code say.   *)
C11_NoTextElementsNoExplicitIsZero ==
    fnRet # Null /\ NoTextBearingElement(Val(fnArg))
                 /\ Val(Val(fnArg)).TextLines = Null
                 /\ Val(Val(fnArg)).NumberOfTextLines = Null
                 /\ Val(Val(fnArg)).Lines = Null
        => Val(fnRet) = 0

\* a template named "Two" whose elements are there and carry blank text or none
C11_Witness ==
    /\ fnRet = Some(0)
    /\ NoTextBearingElement(Val(fnArg))
    /\ Val(Val(fnArg)).TextLines = Null
    /\ Val(Val(fnArg)).Name = <<"T","w","o">>
    /\ Len(Val(Val(Val(fnArg)).TemplateElements)) >= 2

-----------------------------------------------------------------------------
(* C12, C13 *)

\* the elements of the template the names are asked for (none without a list)
NamedElements ==
    IF Val(fnArg).template = Null \/ Val(Val(fnArg).template).TemplateElements = Null THEN <<>>
    ELSE Val(Val(Val(fnArg).template).TemplateElements)

\* the element has a Text string and a name that is not blank
IsCandidate(el) == el.Text # Null /\ \E k \in DOMAIN el.ElementName : el.ElementName[k] # " "

\* the name without the white space around it
Stripped(name) ==
    LET inked == { k \in DOMAIN name : name[k] # " " }
    IN SubSeq(name, CHOOSE k \in inked : \A m \in inked : k <= m,
                    CHOOSE k \in inked : \A m \in inked : k >= m)

\* how many candidate elements carry the name
CandidatesNamed(n) ==
    Cardinality({ i \in DOMAIN NamedElements :
                    IsCandidate(NamedElements[i]) /\ Stripped(NamedElements[i].ElementName) = n })

CandidateCount == Cardinality({ i \in DOMAIN NamedElements : IsCandidate(NamedElements[i]) })

\* how many of the returned names come from elements
FromElements == Min(CandidateCount, Val(fnArg).count)

\* the names the claim calls Top-like and Bottom-like, among those of the model
TopLike == { <<"T","o","p">>, <<"U","p","p","e","r">>, <<"T","e","x","t">>, <<"L","i","n","e","1">> }
BottomLike == { <<"B","o","t","t","o","m">>, <<"L","i","n","e","2">> }

\* the names in the order the claim gives: rank, then line number, then lexical
InOrder(a, b) ==
    LET rank(n) == IF n \in TopLike THEN 1 ELSE IF n \in BottomLike THEN 2
                   ELSE IF n = <<"L","i","n","e","3">> THEN 3 ELSE 999
        number(n) == IF n = <<"L","i","n","e","1","0">> THEN 10
                     ELSE IF Len(n) = 5 /\ SubSeq(n, 1, 4) = <<"L","i","n","e">> THEN Chars.valueOf[n[5]]
                     ELSE 999
    IN \/ rank(a) < rank(b)
       \/ rank(a) = rank(b) /\ number(a) < number(b)
       \/ rank(a) = rank(b) /\ number(a) = number(b) /\ localeCompare(a, b) <= 0

(* C12: for every template and every count in 0..3 getElementNamesForTemplate *)
(* returns exactly count names: first names of text-bearing elements, each   *)
(* used no more often than elements carry it, the names left out being the   *)
(* last in the order; then 'Line{n}' at every further position n, so         *)
(* Line1..Line{count} when the template has no elements.                     *)
C12_ExactlyCountNames ==
    fnRet # Null =>
        /\ Len(Val(fnRet)) = Val(fnArg).count
        /\ \A i \in 1..FromElements :
              Cardinality({ j \in 1..FromElements : Val(fnRet)[j] = Val(fnRet)[i] })
                  <= CandidatesNamed(Val(fnRet)[i])
        \* truncation drops the names that come last in the order
        /\ \A k \in DOMAIN NamedElements : \A i \in 1..FromElements :
              LET n == NamedElements[k].ElementName IN
              IsCandidate(NamedElements[k])
              /\ Cardinality({ j \in 1..FromElements : Val(fnRet)[j] = Stripped(n) })
                     < CandidatesNamed(Stripped(n))
              => InOrder(Val(fnRet)[i], Stripped(n))
        /\ \A i \in (FromElements + 1)..Val(fnArg).count :
              Val(fnRet)[i] = <<"L","i","n","e">> \o <<Chars.digits[i + 1]>>

\* two names asked of a template with one text-bearing element: its name, then Line2
C12_Witness ==
    /\ fnRet = Some(<< <<"Z","e","d">>, <<"L","i","n","e","2">> >>)
    /\ CandidateCount = 1
    /\ Len(NamedElements) = 2

\* the same template with its elements in the opposite order
Reversed(ot) ==
    IF ot = Null \/ Val(ot).TemplateElements = Null THEN ot
    ELSE Some([Val(ot) EXCEPT !.TemplateElements =
                  Some([i \in DOMAIN Val(@) |-> Val(@)[Len(Val(@)) + 1 - i]])])

(* C13: the names getElementNamesForTemplate takes from elements come in     *)
(* ascending order of rank, then line number, then lexical order: no         *)
(* Bottom-like name precedes a Top-like one, and the order of the elements   *)
(* in the template does not change the result.                               *)
C13_NamesSorted ==
    fnRet # Null =>
        /\ \A i, j \in 1..FromElements : i < j => InOrder(Val(fnRet)[i], Val(fnRet)[j])
        /\ \A i, j \in 1..FromElements :
              i < j => ~(Val(fnRet)[i] \in BottomLike /\ Val(fnRet)[j] \in TopLike)
        /\ getElementNamesForTemplate(Reversed(Val(fnArg).template), Val(fnArg).count) = Val(fnRet)

\* Bottom, Line1, Top in the template come out as Line1, Top, Bottom
C13_Witness ==
    /\ fnRet = Some(<< <<"L","i","n","e","1">>, <<"T","o","p">>, <<"B","o","t","t","o","m">> >>)
    /\ Len(NamedElements) = 3
    /\ NamedElements[1].ElementName = <<"B","o","t","t","o","m">>
    /\ NamedElements[3].ElementName = <<"T","o","p">>

-----------------------------------------------------------------------------
(* C14, C15 *)

\* the palette holds the entry with Code 1842 and Name '1842 - Royal Blue'
HasRoyalBlue(colours) ==
    \E i \in DOMAIN colours :
        /\ colours[i].Code = <<"1","8","4","2">>
        /\ colours[i].Name = <<"1","8","4","2"," ","-"," ","R","o","y","a","l"," ","B","l","u","e">>

(* C14, as stated: for every palette that contains an entry with Code 1842   *)
(* and Name '1842 - Royal Blue', findColourRgbFromTemplateValue returns the  *)
(* same RGB string for '1842 - Royal Blue', '1842' and 'Royal Blue'.         *)
C14_SameRgbForThreeForms ==
    fnRet # Null /\ HasRoyalBlue(Val(fnArg).colours)
                 /\ Val(fnArg).value \in { <<"1","8","4","2"," ","-"," ","R","o","y","a","l"," ","B","l","u","e">>,
                                           <<"R","o","y","a","l"," ","B","l","u","e">> }
        => Val(fnRet) = findColourRgbFromTemplateValue(<<"1","8","4","2">>, Val(fnArg).colours)

(* C15, as stated: for every palette, the empty one included,                *)
(* findColourRgbFromTemplateValue('#FF0000', palette) returns '#FF0000'.     *)
C15_HexPassesThrough ==
    fnRet # Null /\ Val(fnArg).value = <<"#","F","F","0","0","0","0">>
        => Val(fnRet) = Some(<<"#","F","F","0","0","0","0">>)

-----------------------------------------------------------------------------
(* C16, C17 *)

\* the name in lower case without a font-file extension at its end and
\* without the characters that are neither letters nor digits
RefNormalize(s) ==
    LET l == toLowerCase(s)
        exts == { <<".","t","t","f">>, <<".","o","t","f">>, <<".","w","o","f","f">>,
                  <<".","w","o","f","f","2">> }
        cut == IF \E e \in exts : endsWith(l, e) THEN Len(CHOOSE e \in exts : endsWith(l, e)) ELSE 0
    IN SelectSeq(SubSeq(l, 1, Len(l) - cut), LAMBDA c : c \in Chars.alnum)

IsPrefix(p, s) == Len(p) <= Len(s) /\ \A i \in 1..Len(p) : s[i] = p[i]

\* the catalog name matches the value by the strategy
StageMatch(stage, name, ov) ==
    CASE stage = "exact" -> toLowerCase(name) = toLowerCase(ov)
      [] stage = "normalized" -> RefNormalize(name) = RefNormalize(ov)
      [] stage = "prefix" -> \/ IsPrefix(RefNormalize(name), RefNormalize(ov))
                             \/ IsPrefix(RefNormalize(ov), RefNormalize(name))

\* the FontName of the first catalog font the strategy matches, or null
FirstMatch(stage, fonts, ov) ==
    LET hits == { i \in DOMAIN fonts : StageMatch(stage, fonts[i].FontName, ov) }
    IN IF hits = {} THEN Null ELSE Some(fonts[CHOOSE i \in hits : \A j \in hits : i <= j].FontName)

\* the strategy of the template's font-mapping table
TableMatch(tf, fonts, ov) ==
    LET hits == { i \in DOMAIN tf : toLowerCase(tf[i].PulseFont) = toLowerCase(ov) }
        first == tf[CHOOSE i \in hits : \A j \in hits : i <= j]
    IN IF hits = {} THEN Null
       ELSE IF first.FontName = <<>> THEN Null
       ELSE FirstMatch("exact", fonts, first.FontName)

\* the strategy chain: the table, then the strategies of `order`
RefChain(order, a) ==
    LET ov == trim(a.override)
        stages == { k \in DOMAIN order : FirstMatch(order[k], a.fonts, ov) # Null }
    IN IF TableMatch(a.tpl.TemplateFonts, a.fonts, ov) # Null
       THEN TableMatch(a.tpl.TemplateFonts, a.fonts, ov)
       ELSE IF stages = {} THEN Null
       ELSE FirstMatch(order[CHOOSE k \in stages : \A m \in stages : k <= m], a.fonts, ov)

(* C16, as stated: resolveFontFromOverride returns what the chain (1) font-  *)
(* mapping table, (2) exact match after normalization, (3) case-insensitive  *)
(* exact match on the unnormalized name, (4) normalized prefix match in      *)
(* either direction returns, first match wins, null when none matches.       *)
C16_ChainAsStated ==
    fnRet # Null => Val(fnRet) = RefChain(<<"normalized", "exact", "prefix">>, Val(fnArg))

(* C16, amended: resolveFontFromOverride returns null for an empty override  *)
(* and otherwise what the chain (1) font-mapping table, (2) case-insensitive *)
(* exact match on the unnormalized name, (3) exact match after               *)
(* normalization, (4) normalized prefix match in either direction returns,   *)
(* first match wins, null when none matches.                                 *)
C16_ChainExactFirst ==
    fnRet # Null =>
        Val(fnRet) = IF Val(fnArg).override = <<>> THEN Null
                     ELSE RefChain(<<"exact", "normalized", "prefix">>, Val(fnArg))

\* 'Block-Regular.otf' matches no name as it is and 'Block Regular' once normalized
C16_Witness ==
    /\ fnRet = Some(Some(<<"B","l","o","c","k"," ","R","e","g","u","l","a","r">>))
    /\ Val(fnArg).override = <<"B","l","o","c","k","-","R","e","g","u","l","a","r",".","o","t","f">>
    /\ Val(fnArg).tpl.TemplateFonts = <<>>
    /\ Val(fnArg).fonts[1].FontName = <<"B","l","o">>

-----------------------------------------------------------------------------
(* C18, C19 *)

(* C18, as stated: in every reachable state the selected colour is null or   *)
(* the 'rgb(R, G, B)' string of some entry of the loaded palette.            *)
C18_ColourFromPalette ==
    color = Null \/ \E i \in DOMAIN availableColors : color = Some(rgbOf(availableColors[i]))

(* C19, as stated: whenever template initialization completes with a        *)
(* non-empty palette, the selected colour is non-null afterwards.            *)
C19_ColourSetAfterInit ==
    h.last = "TemplateInitEffect" /\ availableColors # <<>> => color # Null

-----------------------------------------------------------------------------
(* C20 *)

\* the step is the failure of a catalog fetch
FetchFails == \E f \in DOMAIN fetches : fetches[f] = "pending" /\ fetches'[f] = "failed"

(* C20, as stated: when a catalog fetch fails, by a network error, an        *)
(* upstream error response relayed by the proxy or a body of an unexpected   *)
(* shape, the product and the four catalogs keep their values and the edit   *)
(* state and the displayed image are unchanged.                              *)
C20_FailedFetchChangesNothing ==
    [][FetchFails => UNCHANGED <<product, catalogs, edit, displayedUrl>>]_vars

-----------------------------------------------------------------------------
(* C21: asset references have the placeholder host substituted              *)

PlaceholderToken == "{api domain}"

\* C21: every asset reference of a gateway response has the '{api domain}'
\* placeholder replaced by the asset host before it is an image source; in
\* particular displayedUrl never contains the placeholder.
C21_NoPlaceholderInDisplayedUrl ==
    \A i \in DOMAIN displayedUrl : displayedUrl[i] # PlaceholderToken

-----------------------------------------------------------------------------
(* C22: the indicator stays raised while the off-screen load is in flight    *)

\* the off-screen load of the current pendingUrl is in flight, indicator raised
PreloadInFlight == isRendering /\ img # Null /\ Val(img).status = "loading"

\* C22: from the issue of a render URL until its off-screen load succeeds or
\* fails or the guard fires, the indicator stays raised: only those three
\* events clear it, not a load or error event of the visible preview image.
C22_IndicatorHeldUntilSettled ==
    [][(PreloadInFlight /\ ~isRendering') => h'.last \in {"ImgLoad", "ImgError", "GuardFire"}]_vars

-----------------------------------------------------------------------------
(* C23: template initialization and the user's text edits                    *)

\* C23: template initialization never overwrites a text edit the user made
\* after the template was selected, whatever the order in which the font
\* catalog, the colour catalog and the template list arrive.
C23_InitKeepsUserText ==
    [][h'.last = "TemplateInitEffect" =>
         \A i \in h.typed : i <= Len(textLines') /\ textLines'[i] = textLines[i]]_vars

-----------------------------------------------------------------------------
(* C24: the seeded lines and the element names agree position by position    *)

\* line i of the seeded lines is the Text of an element named names[i]
LineOfItsElement(t, r, i) ==
    \E k \in DOMAIN ElementsOf(t) :
       LET el == ElementsOf(t)[k] IN
       /\ el.Text # Null
       /\ Val(el.Text) = r.lines[i]
       /\ trim(el.ElementName) = r.names[i]

\* C24: for every template the i-th line seeded by deriveControlsFromTemplate
\* is the Text of the element whose name is the i-th entry of
\* getElementNamesForTemplate(template, lines.length).
C24_LockstepAlignment ==
    fnRet # Null =>
        \A i \in DOMAIN Val(fnRet).lines : LineOfItsElement(Val(fnArg), Val(fnRet), i)

-----------------------------------------------------------------------------
(* C26: the indicator is always cleared again                                *)

\* C26: whenever the rendering indicator is raised it is eventually cleared,
\* at the latest GUARD_TIMEOUT_MS after it was raised, even if the image load
\* never completes and even if further render URLs are issued meanwhile.
C26_IndicatorEventuallyCleared ==
    /\ isRendering ~> ~isRendering
    /\ [](isRendering => h.raisedFor <= GuardTicks)

\* the guard, not a load, cleared the indicator, GUARD_TIMEOUT_MS after it was
\* raised, while the off-screen load was still outstanding
C26_Witness ==
    /\ h.last = "GuardFire"
    /\ ~isRendering
    /\ h.raisedFor = GuardTicks
    /\ img # Null /\ Val(img).status = "loading"

-----------------------------------------------------------------------------
(* C25: the final state is eventually displayed                              *)

\* no edit and no arrival is outstanding, product and colour are set: the edit
\* state is final
Settled ==
    /\ h.edits = MaxEdits
    /\ \A f \in DOMAIN fetches : fetches[f] = "done"
    /\ ~templateInitPending
    /\ RenderGate(product, color)

\* the URL built from the edit state, and what became of its off-screen load
FinalShown == displayedUrl = BuildRenderUrl(CurrentEnv)
FinalLoadFailed ==
    img # Null /\ Val(img).url = BuildRenderUrl(CurrentEnv) /\ Val(img).status = "failed"

\* every off-screen load ends, in a load or in an error
LoadsEnd == []<>(img = Null \/ Val(img).status # "loading")

\* once the debounced callback has run on the final edit state, the image of
\* the final URL is the current one, its handlers attached, and is displayed
\* as soon as it has loaded
FinalLoadAttached ==
    (Settled /\ debounce = Null) =>
        /\ img # Null
        /\ Val(img).url = BuildRenderUrl(CurrentEnv)
        /\ Val(img).handlers
        /\ Val(img).status = "loaded" => FinalShown

\* C25: after the last edit, with product and colour set, displayedUrl
\* eventually equals the URL built from the final edit state and stays equal
\* to it, unless the off-screen load of that URL failed; the load of the final
\* URL is never skipped as a same-URL no-op and never loses its handlers.
C25_FinalStateDisplayed ==
    /\ []FinalLoadAttached
    /\ (LoadsEnd /\ <>Settled) => <>[](Settled /\ (FinalShown \/ FinalLoadFailed))

\* the final URL is displayed although a superseded load, its handlers
\* detached, is still outstanding
C25_Witness ==
    /\ Settled
    /\ FinalShown
    /\ CurrentLoaded
    /\ stale # {}

-----------------------------------------------------------------------------
(* C27: the colour round trip                                                *)

\* C27: for every palette and every entry c of it, when c is selected the
\* render request carries c's own Name, also when several entries have the
\* same RGB triple; an RGB string of no entry gives the empty string.
C27_ColourRoundTrip ==
    fnRet # Null =>
        LET a == Val(fnArg) IN
        Val(fnRet) = IF a.pick = 0 THEN <<>> ELSE a.colours[a.pick].Name

-----------------------------------------------------------------------------
(* C28: the returned names are pairwise distinct                             *)

\* no two text-bearing elements of the template have the same name (an
\* element without a name carries none)
DistinctElementNames ==
    \A i, j \in DOMAIN NamedElements :
        (/\ i # j
         /\ NamedElements[i].Text # Null /\ NamedElements[j].Text # Null
         /\ IsCandidate(NamedElements[i]) /\ IsCandidate(NamedElements[j]))
        => Stripped(NamedElements[i].ElementName) # Stripped(NamedElements[j].ElementName)

\* C28: the names returned by getElementNamesForTemplate are pairwise distinct
\* whenever the template's text-bearing element names are: a synthesized
\* 'Line{n}' never repeats a name already in the list.
C28_NamesPairwiseDistinct ==
    (fnRet # Null /\ DistinctElementNames) =>
        \A i, j \in DOMAIN Val(fnRet) : i # j => Val(fnRet)[i] # Val(fnRet)[j]

-----------------------------------------------------------------------------
(* C29: one thumbnail request per template code                              *)

\* the requests sent to the gateway for the thumbnail of `code`
ThumbRequests(code) == { i \in DOMAIN ThumbProgress.sent : ThumbProgress.sent[i] = code }

\* C29: during a session the thumbnail of a template code is requested from
\* the gateway at most once; a second getTemplateThumbnail call for the code,
\* concurrent or later, is served from the per-code cache.
C29_OneThumbnailRequestPerCode ==
    fnArg # Null =>
        \A k \in DOMAIN Val(fnArg) : Cardinality(ThumbRequests(Val(fnArg)[k])) <= 1

-----------------------------------------------------------------------------
(* C30: the interpolated values of the render URL are percent-encoded        *)

\* the characters that separate and assign request parameters; in the URL of
\* the model they stand alone only where an interpolated value holds them
\* (the pieces the code writes itself are single items)
ReservedChars == {"&", "=", "#"}

\* C30: every value interpolated into the render URL is percent-encoded: a
\* catalog or user value holding '&', '=' or '#' neither adds a request
\* parameter nor changes another parameter's value.
C30_ValuesPercentEncoded ==
    fnRet # Null =>
        \A i \in DOMAIN Val(fnRet).url : Val(fnRet).url[i] \notin ReservedChars

=============================================================================
